---- MODULE Spec2Model ----
(***************************************************************************)
(* discordo: the guilds tree (cmd/guilds_tree.go), the gateway event       *)
(* handlers and initiateDM (cmd/state.go), the chat view                   *)
(* (cmd/chat_view.go), the members list (cmd/members_list.go) and the      *)
(* friends list (cmd/friends_list.go), modelled as a state machine.        *)
(*                                                                         *)
(* Execution contexts.  The tview application runs one UI goroutine: it    *)
(* runs the input handlers (onSelected, closeDM, closeCurrentDM) and, one  *)
(* at a time and in enqueue order, the closures handed to                  *)
(* app.QueueUpdateDraw.  Gateway event handlers (onReady, onMessageCreate, *)
(* ...) run in goroutines of the event dispatcher, and every `go f()` of   *)
(* the source is a worker goroutine.  Each worker is a record in the bag   *)
(* `workers`; each queued closure is a record in the sequence `queue`.     *)
(***************************************************************************)
EXTENDS Bags, FiniteSets, Integers, Naturals, Sequences, TLC

VARIABLES
    nodes,                  \* the tview.TreeNode objects ever allocated; a node's index is its pointer
    queue,                  \* closures handed to app.QueueUpdateDraw, in enqueue order
    workers,                \* bag of goroutines in flight
    selectedChannel,        \* chatView.selectedChannel: a channel id, 0 for nil
    ind,                    \* ningen read state: channel id -> unread indication
    guildsTreeInitialized,  \* package variable of cmd/state.go
    readyFolders,           \* UserSettings.GuildFolders of the Ready event that built the tree
    lastOp,                 \* the handler or closure that updated the presentation state last
    events,                 \* number of gateway events so far
    inputs,                 \* number of user inputs so far
    ml,                     \* chatView.membersList: visible, currentGuildID, rows, memberItems
    cab,                    \* the member, presence and role stores of discordState.Cabinet
    mlOp,                   \* what the last handler did about the members list
    fl,                     \* the friends list on show
    pinnedRows,             \* the rows of the pinned messages list on show
    mi,                     \* chatView.messageInput: disabled or not, the word under the
                            \* cursor, cache, lastSearch
    messagesList,           \* chatView.messagesList: the channel whose messages it shows, 0
                            \* after reset()
    net,                    \* the blocking request that was answered last, of those that the
                            \* message input, the friends list or a message fetch in two
                            \* steps made, and the goroutine that made it
    mainFlex,               \* chatView.mainFlex: its items, from left to right
    http                    \* internal/http: the cached build number, its fetch time, the
                            \* mutex, the clock and the callers of GetLatestBuildNumber

vars == <<nodes, queue, workers, selectedChannel, ind, guildsTreeInitialized,
          readyFolders, lastOp, events, inputs, ml, cab, mlOp, fl, pinnedRows, mi,
          messagesList, net, mainFlex, http>>

\* the items of chatView.mainFlex
GuildsTreeItem  == "guildsTree"
RightFlexItem   == "rightFlex"
MembersListItem == "membersList"

\* tview.Flex.RemoveItem: every occurrence of the item goes
RemoveItem(items, item) == SelectSeq(items, LAMBDA x : x # item)

\* chatView.buildLayout: mainFlex is cleared and filled again
buildLayout(m) ==
    IF m.visible THEN <<GuildsTreeItem, RightFlexItem, MembersListItem>>
    ELSE <<GuildsTreeItem, RightFlexItem>>

\* what chatView.toggleMembersList does to mainFlex; m is the members list
\* before the call
toggleMembersItem(items, m) ==
    IF ~m.visible THEN Append(items, MembersListItem)
    ELSE RemoveItem(items, MembersListItem)

\* the side lists and the member cache
sideRest == <<ml, cab, mlOp, fl, pinnedRows, net, mainFlex, http>>
\* the same with the message input and the message list
sideVars == <<sideRest, mi, messagesList>>

----------------------------------------------------------------------------
(* The build number of the client, internal/http/build_number.go *)

\* the goroutines that call GetLatestBuildNumber
NumCallers == 2
Callers == 1..NumCallers

\* the clock counts half hours, and stops at MaxTime
MaxTime == 3
\* cacheDuration = 1 * time.Hour
cacheDuration == 2

\* the numbers that fetchBuildNumberFromDiscord can find; each is positive
MaxBuild == 2
BuildNumbers == 1..MaxBuild

\* the constant that is returned when no number can be fetched
ClientBuildNumber == "ClientBuildNumber"

\* what a call returned, and where the number came from
Returned(how, n) == [how |-> how, n |-> n]

\* the package variables with their zero values, no holder of the read lock, and every
\* caller outside of GetLatestBuildNumber.  seen is the number that the
\* caller read with the fetch time, buildNumber its local variable.
NewBuildNumber ==
    [cachedBuildNumber |-> 0,
     lastFetchTime     |-> 0,
     readers           |-> {},
     now               |-> 0,
     pc                |-> [p \in Callers |-> "idle"],
     seen              |-> [p \in Callers |-> 0],
     buildNumber       |-> [p \in Callers |-> 0],
     ret               |-> [p \in Callers |-> Returned("none", 0)]]

\* what the steps of GetLatestBuildNumber leave alone
BuildFrame ==
    <<nodes, queue, workers, selectedChannel, ind, guildsTreeInitialized, readyFolders,
      lastOp, events, inputs, ml, cab, mlOp, fl, pinnedRows, mi, messagesList, net, mainFlex>>

\* `cachedBuildNumber > 0 && time.Since(lastFetchTime) < cacheDuration`
CacheFresh(h) == h.cachedBuildNumber > 0 /\ h.now - h.lastFetchTime < cacheDuration

\* RLock, which no writer holds up because a writer locks, writes and unlocks
\* in one step, and the test of the cache, which reads the number and its
\* fetch time with the read lock held
CheckCache(p) ==
    /\ http.pc[p] = "idle"
    /\ http' = [http EXCEPT !.readers = @ \cup {p},
                            !.seen[p] = http.cachedBuildNumber,
                            !.pc[p] = IF CacheFresh(http) THEN "hit" ELSE "miss"]
    /\ UNCHANGED BuildFrame

\* RUnlock on either path
RUnlock(p) ==
    /\ http.pc[p] \in {"hit", "miss"}
    /\ http' = [http EXCEPT !.readers = @ \ {p},
                            !.pc[p] = IF http.pc[p] = "hit" THEN "return" ELSE "fetch"]
    /\ UNCHANGED BuildFrame

\* `return cachedBuildNumber` after RUnlock: the variable is read again, with
\* no lock held, while another caller may be writing it; the read gives the
\* number that is there now or the one loaded for the test
ReturnCached(p) ==
    /\ http.pc[p] = "return"
    /\ \E n \in {http.cachedBuildNumber, http.seen[p]} :
          http' = [http EXCEPT !.ret[p] = Returned("cached", n), !.pc[p] = "idle"]
    /\ UNCHANGED BuildFrame

\* fetchBuildNumberFromDiscord fails: the fallback, and nothing is written
FetchFails(p) ==
    /\ http.pc[p] = "fetch"
    /\ http' = [http EXCEPT !.ret[p] = Returned("fallback", ClientBuildNumber),
                            !.pc[p] = "idle"]
    /\ UNCHANGED BuildFrame

\* fetchBuildNumberFromDiscord finds a number
FetchSucceeds(p) ==
    /\ http.pc[p] = "fetch"
    /\ \E n \in BuildNumbers :
          http' = [http EXCEPT !.buildNumber[p] = n, !.pc[p] = "lock"]
    /\ UNCHANGED BuildFrame

\* Lock, which waits for the readers, the two writes, Unlock and the return
\* of the fetched number
UpdateCache(p) ==
    /\ http.pc[p] = "lock" /\ http.readers = {}
    /\ http' = [http EXCEPT !.cachedBuildNumber = http.buildNumber[p],
                            !.lastFetchTime = http.now,
                            !.ret[p] = Returned("fetched", http.buildNumber[p]),
                            !.pc[p] = "idle"]
    /\ UNCHANGED BuildFrame

\* half an hour passes
Tick ==
    /\ http.now < MaxTime
    /\ http' = [http EXCEPT !.now = @ + 1]
    /\ UNCHANGED BuildFrame


----------------------------------------------------------------------------
(* Bounds *)

\* gateway events in one behaviour, the Ready event that opens the session
\* not counted
MaxEvents == 2
\* user inputs in one behaviour
MaxInputs == 2
\* goroutines and closures pending when an event or input arrives
MaxPending == 1
\* private channels known to the server
NumDMs == 2
\* folder entries of a Ready event
MaxFolders == 2
\* children of the DM-group in the promotion specification
MaxChildren == 4
\* users whose member and presence events arrive
NumUsers == 2
\* members of a guild in the cabinet when a members list is built
MaxMembers == 3
\* pinned messages a channel has
MaxPinned == 2
\* letters of the word that is searched among the members
MaxQuery == 2
\* MemberState.SearchLimit, the most members one member search returns
SearchLimit == 2

----------------------------------------------------------------------------
(* Entities of the local cache (discordState.Cabinet) *)

DMs == 1..NumDMs                    \* ids of the private channels
Guilds == {1, 2}                    \* guild ids that occur in Ready events
CachedGuilds == {1}                 \* guilds for which Cabinet.Guild succeeds
CategoryChan == 21                  \* a category of guild 1
TextChan == 22                      \* a text channel of guild 1 inside the category
HiddenChan == 23                    \* a text channel of guild 1 the user may not view
GuildChans == {CategoryChan, TextChan, HiddenChan}
Channels == DMs \cup GuildChans

Indications == {"read", "unread", "mentioned"}

\* discord.Channel as stored in the cabinet
Channel(c) ==
    IF c \in DMs THEN [id |-> c, type |-> "dm", guild |-> 0, parent |-> 0]
    ELSE IF c = CategoryChan THEN [id |-> c, type |-> "category", guild |-> 1, parent |-> 0]
    ELSE IF c = TextChan THEN [id |-> c, type |-> "text", guild |-> 1, parent |-> CategoryChan]
    ELSE [id |-> c, type |-> "text", guild |-> 1, parent |-> 0]

\* Cabinet.Channels(guildID) after slices.SortFunc by Position
CabinetChannels(g) ==
    IF g = 1 THEN <<Channel(HiddenChan), Channel(CategoryChan), Channel(TextChan)>> ELSE <<>>

\* discordState.HasPermissions(channel.ID, discord.PermissionViewChannel)
HasViewPermission(c) == c # HiddenChan

\* discordState.HasPermissions(channel.ID, discord.PermissionSendMessages)
HasSendPermission(c) == c # HiddenChan

\* channel.Type == discord.DirectMessage || channel.Type == discord.GroupDM
IsDMType(t) == t = "dm"

\* guild.Name; no guild is named "Direct Messages"
GuildName(g) == IF g = 1 THEN "guild one" ELSE "guild two"

----------------------------------------------------------------------------
(* tview.TreeNode *)

Root == 1

NilRef == [t |-> "nil", id |-> 0]
GuildRef(g) == [t |-> "guild", id |-> g]
ChanRef(c) == [t |-> "chan", id |-> c]

\* tview.NewTreeNode(text): no reference, default style, expanded
NewTreeNode(text) ==
    [ref |-> NilRef, text |-> text, style |-> "default", forced |-> FALSE,
     children |-> <<>>, expanded |-> TRUE]

AddChild(ns, p, c) == [ns EXCEPT ![p].children = Append(@, c)]

IndexOf(s, x) ==
    IF \E i \in 1..Len(s) : s[i] = x
    THEN CHOOSE i \in 1..Len(s) : s[i] = x /\ \A j \in 1..(i-1) : s[j] # x
    ELSE 0

\* TreeNode.RemoveChild: removes the first occurrence of the pointer
RemoveAt(s, i) == SubSeq(s, 1, i-1) \o SubSeq(s, i+1, Len(s))
RemoveChild(ns, p, c) ==
    LET i == IndexOf(ns[p].children, c)
    IN  IF i = 0 THEN ns ELSE [ns EXCEPT ![p].children = RemoveAt(@, i)]

ClearChildren(ns, p) == [ns EXCEPT ![p].children = <<>>]

\* TreeNode.SetTextStyle; `forced` records whether the style is the forced
\* unread style of updateDMStyleAndMove rather than a computed one
SetTextStyle(ns, n, s, f) == [ns EXCEPT ![n].style = s, ![n].forced = f]

SetExpanded(ns, n, e) == [ns EXCEPT ![n].expanded = e]

\* TreeNode.Walk(callback): depth-first, pre-order; the callback is called
\* with (node, parent); when it returns false the node's children are not
\* visited, and the traversal goes on with the remaining nodes.
\* Walk(ns, n, p, stop) is the sequence of <<node, parent>> visited from n
\* when the callback returns false exactly on the nodes of `stop`.
RECURSIVE Walk(_, _, _, _)
RECURSIVE WalkList(_, _, _, _)
Walk(ns, n, p, stop) ==
    <<<<n, p>>>> \o (IF n \in stop THEN <<>> ELSE WalkList(ns, ns[n].children, n, stop))
WalkList(ns, cs, p, stop) ==
    IF cs = <<>> THEN <<>>
    ELSE Walk(ns, Head(cs), p, stop) \o WalkList(ns, Tail(cs), p, stop)

\* the nodes of the subtree of n, with their parents (0 for n itself)
Visited(ns, n) == Walk(ns, n, 0, {})
InTree(ns) == {Visited(ns, Root)[i][1] : i \in 1..Len(Visited(ns, Root))}

\* the value left in a variable assigned by the callback on every match:
\* the last visited match, 0 (nil) when nothing matches
LastOf(w, M) ==
    IF \E i \in 1..Len(w) : w[i][1] \in M
    THEN w[CHOOSE i \in 1..Len(w) : w[i][1] \in M /\ \A j \in (i+1)..Len(w) : w[j][1] \notin M][1]
    ELSE 0

\* Walk from `start` with the callback
\*   if node.GetReference() == ref { found = node; return false }; return true
FindByRef(ns, start, ref) ==
    LET M == {n \in 1..Len(ns) : ns[n].ref = ref}
    IN  LastOf(Walk(ns, start, 0, M), M)

\* Walk from the root with the callback
\*   if node.GetText() == "Direct Messages" && parent == root { dmNode = node; return false }
FindDMGroup(ns) ==
    LET w == Visited(ns, Root)
        M == {w[i][1] : i \in {j \in 1..Len(w) : ns[w[j][1]].text = "Direct Messages" /\ w[j][2] = Root}}
    IN  LastOf(Walk(ns, Root, 0, M), M)

----------------------------------------------------------------------------
(* Styles *)

\* guildsTree.unreadStyle
unreadStyle(indication) ==
    CASE indication = "read" -> "dim"
      [] indication = "mentioned" -> "bold+underline"
      [] indication = "unread" -> "bold"
      [] OTHER -> "default"

\* guildsTree.getChannelNodeStyle, read from the read state `rs`
getChannelNodeStyle(rs, c) == unreadStyle(rs[c])

\* ningen GuildIsUnread: the strongest indication among the guild's channels
GuildIsUnread(rs, g) ==
    LET cs == {c \in GuildChans : Channel(c).guild = g}
    IN  IF \E c \in cs : rs[c] = "mentioned" THEN "mentioned"
        ELSE IF \E c \in cs : rs[c] = "unread" THEN "unread"
        ELSE "read"

\* guildsTree.getGuildNodeStyle
getGuildNodeStyle(rs, g) == unreadStyle(GuildIsUnread(rs, g))

----------------------------------------------------------------------------
(* Node creation, cmd/guilds_tree.go *)

\* guildsTree.createGuildNode(n, guild)
createGuildNode(ns, n, g, rs) ==
    LET guildNode == [NewTreeNode(GuildName(g)) EXCEPT
                        !.ref = GuildRef(g), !.style = getGuildNodeStyle(rs, g)]
    IN  AddChild(Append(ns, guildNode), n, Len(ns) + 1)

\* guildsTree.createChannelNode(node, channel)
createChannelNode(ns, node, channel, rs) ==
    IF ~IsDMType(channel.type) /\ ~HasViewPermission(channel.id)
    THEN ns
    ELSE LET channelNode == [NewTreeNode("channel") EXCEPT
                               !.ref = ChanRef(channel.id),
                               !.style = getChannelNodeStyle(rs, channel.id)]
         IN  AddChild(Append(ns, channelNode), node, Len(ns) + 1)

\* first loop of createChannelNodes: channels that are no category and have no parent
RECURSIVE createTopLevel(_, _, _, _)
createTopLevel(ns, node, channels, rs) ==
    IF channels = <<>> THEN ns
    ELSE LET channel == Head(channels)
             ns1 == IF channel.type # "category" /\ channel.parent = 0
                    THEN createChannelNode(ns, node, channel, rs) ELSE ns
         IN  createTopLevel(ns1, node, Tail(channels), rs)

\* second loop (PARENT_CHANNELS): categories with at least one nested channel
RECURSIVE createCategories(_, _, _, _, _)
createCategories(ns, node, channels, all, rs) ==
    IF channels = <<>> THEN ns
    ELSE LET channel == Head(channels)
             ns1 == IF /\ channel.type = "category"
                       /\ \E i \in 1..Len(all) : all[i].parent = channel.id
                    THEN createChannelNode(ns, node, channel, rs) ELSE ns
         IN  createCategories(ns1, node, Tail(channels), all, rs)

\* third loop: channels with a parent, under the node of the parent if there is one
RECURSIVE createNested(_, _, _, _)
createNested(ns, node, channels, rs) ==
    IF channels = <<>> THEN ns
    ELSE LET channel == Head(channels)
             parent == FindByRef(ns, node, ChanRef(channel.parent))
             ns1 == IF channel.parent # 0 /\ parent # 0
                    THEN createChannelNode(ns, parent, channel, rs) ELSE ns
         IN  createNested(ns1, node, Tail(channels), rs)

\* guildsTree.createChannelNodes(node, channels)
createChannelNodes(ns, node, channels, rs) ==
    createNested(
        createCategories(createTopLevel(ns, node, channels, rs), node, channels, channels, rs),
        node, channels, rs)

\* cfg.Theme.GuildsTree.AutoExpandFolders
AutoExpandFolders == TRUE

\* loop of createFolderNode over folder.GuildIDs
RECURSIVE createFolderGuilds(_, _, _, _)
createFolderGuilds(ns, folderNode, gids, rs) ==
    IF gids = <<>> THEN ns
    ELSE LET ns1 == IF Head(gids) \in CachedGuilds
                    THEN createGuildNode(ns, folderNode, Head(gids), rs) ELSE ns
         IN  createFolderGuilds(ns1, folderNode, Tail(gids), rs)

\* guildsTree.createFolderNode(folder)
createFolderNode(ns, folder, rs) ==
    LET name == IF folder.name # "" THEN "[color]" \o folder.name \o "[-]" ELSE "Folder"
        folderNode == [NewTreeNode(name) EXCEPT !.expanded = AutoExpandFolders]
        ns1 == AddChild(Append(ns, folderNode), Root, Len(ns) + 1)
    IN  createFolderGuilds(ns1, Len(ns) + 1, folder.guildIDs, rs)

----------------------------------------------------------------------------
(* DM promotion, cmd/guilds_tree.go *)

\* `for _, child := range children { dmParentNode.RemoveChild(child) }`
RECURSIVE removeAll(_, _, _)
removeAll(ns, p, cs) ==
    IF cs = <<>> THEN ns ELSE removeAll(RemoveChild(ns, p, Head(cs)), p, Tail(cs))

\* a loop that re-adds the other children from the last to the first
RECURSIVE addRest_Reversed(_, _, _, _)
addRest_Reversed(ns, p, cs, dmNode) ==
    IF cs = <<>> THEN ns
    ELSE addRest_Reversed(IF cs[Len(cs)] # dmNode THEN AddChild(ns, p, cs[Len(cs)]) ELSE ns,
                          p, SubSeq(cs, 1, Len(cs) - 1), dmNode)

\* `for _, child := range children { if child != dmNode { dmParentNode.AddChild(child) } }`
RECURSIVE addRest(_, _, _, _)
addRest(ns, p, cs, dmNode) ==
    IF cs = <<>> THEN ns
    ELSE addRest(IF Head(cs) # dmNode THEN AddChild(ns, p, Head(cs)) ELSE ns, p, Tail(cs), dmNode)

\* the children of the "Direct Messages" node, <<>> when there is none
DMChildren(ns) == IF FindDMGroup(ns) = 0 THEN <<>> ELSE ns[FindDMGroup(ns)].children

\* position of node n among them, from 1; 0 when it is no child
DMIndex(ns, n) == IndexOf(DMChildren(ns), n)

\* a promotion without the early return for the first child, which re-adds
\* the promoted node after the others
moveDMToTop_ToBack(ns, dmNode) ==
    LET dmParentNode == FindDMGroup(ns)
        children == IF dmParentNode = 0 THEN <<>> ELSE ns[dmParentNode].children
    IN  IF dmParentNode = 0 \/ IndexOf(children, dmNode) = 0 THEN ns
        ELSE AddChild(addRest(removeAll(ns, dmParentNode, children), dmParentNode, children, dmNode),
                      dmParentNode, dmNode)

\* guildsTree.moveDMToTop(dmNode, channelID)
moveDMToTop(ns, dmNode) ==
    LET dmParentNode == FindDMGroup(ns)
        children == IF dmParentNode = 0 THEN <<>> ELSE ns[dmParentNode].children
        nodeIndex == IndexOf(children, dmNode) - 1
    IN  IF dmParentNode = 0 THEN ns
        ELSE IF nodeIndex = -1 THEN ns
        ELSE IF nodeIndex = 0 THEN ns
        ELSE addRest(AddChild(removeAll(ns, dmParentNode, children), dmParentNode, dmNode),
                     dmParentNode, children, dmNode)

----------------------------------------------------------------------------
(* Goroutines and closures *)

\* a goroutine in flight or a queued closure, with the values it captured
\* (`had` is not a value of the program: it records, for a MessageCreate
\* event, whether the channel had a node under "Direct Messages" when the
\* event arrived)
Task == [kind |-> "", ch |-> 0, guild |-> 0, node |-> 0, refs |-> <<>>,
         chans |-> <<>>, styles |-> <<>>, force |-> FALSE, had |-> FALSE,
         user |-> 0]

\* a blocking request to the server and the execution context that made it:
\* "ui" for the UI goroutine, "worker" for any other goroutine; ch is the
\* channel of a message fetch
Request(call, ctx) == [call |-> call, ctx |-> ctx, ch |-> 0]
NoRequest == Request("", "")

Spawn(ws, w) == ws (+) SetToBag({w})
Finish(ws, w) == ws (-) SetToBag({w})
Running(kind) == {w \in BagToSet(workers) : w.kind = kind}

\* lastOp: the closure or handler that updated the presentation state most
\* recently, the channel and node it was about and the index that node had
\* among the DM-group's children
Op(name, c, n, i) == [op |-> name, ch |-> c, node |-> n, idx |-> i]

\* the next event or user input arrives while at most MaxPending goroutines
\* and closures are pending
Pending == BagCardinality(workers) + Len(queue)
MayArrive == Pending <= MaxPending

HeadIs(kind) == queue # <<>> /\ Head(queue).kind = kind

\* the nodes shown in the tree view: every ancestor below the root is expanded
RECURSIVE Shown(_, _)
Shown(ns, n) ==
    UNION {{c} \cup (IF ns[c].expanded THEN Shown(ns, c) ELSE {}) :
           c \in {ns[n].children[i] : i \in 1..Len(ns[n].children)}}

\* what ReadState.MarkRead(c, id) leaves in the queue: the read state raises
\* a read.UpdateEvent when the channel was not read, and onReadUpdate
\* enqueues its closure
MarkReadUpdates(rs, c) ==
    IF rs[c] # "read"
    THEN <<[Task EXCEPT !.kind = "readUpdate", !.ch = c, !.guild = Channel(c).guild]>>
    ELSE <<>>

----------------------------------------------------------------------------
(* Gateway event handlers, cmd/state.go *)

\* a GuildFolder of the Ready event
Folder(id, gids, name) == [id |-> id, guildIDs |-> gids, name |-> name]

\* a loop that takes every entry with one guild for an ungrouped guild,
\* whatever its folder id
RECURSIVE buildFolders_AnyID(_, _, _)
buildFolders_AnyID(ns, folders, rs) ==
    IF folders = <<>> THEN ns
    ELSE LET folder == Head(folders)
             ns1 == IF Len(folder.guildIDs) = 1
                    THEN IF folder.guildIDs[1] \in CachedGuilds
                         THEN createGuildNode(ns, Root, folder.guildIDs[1], rs)
                         ELSE ns
                    ELSE createFolderNode(ns, folder, rs)
         IN  buildFolders_AnyID(ns1, Tail(folders), rs)

\* loop of onReady over r.UserSettings.GuildFolders
RECURSIVE buildFolders(_, _, _)
buildFolders(ns, folders, rs) ==
    IF folders = <<>> THEN ns
    ELSE LET folder == Head(folders)
             ns1 == IF folder.id = 0 /\ Len(folder.guildIDs) = 1
                    THEN IF folder.guildIDs[1] \in CachedGuilds
                         THEN createGuildNode(ns, Root, folder.guildIDs[1], rs)
                         ELSE ns
                    ELSE createFolderNode(ns, folder, rs)
         IN  buildFolders(ns1, Tail(folders), rs)

\* a handler without the guildsTreeInitialized guard: every Ready event
\* builds the tree
OnReady_Rebuild(folders) ==
    /\ UNCHANGED sideVars
    /\ MayArrive
    /\ guildsTreeInitialized => events < MaxEvents
    /\ events' = IF guildsTreeInitialized THEN events + 1 ELSE events
    /\ UNCHANGED inputs
    /\ lastOp' = Op("onReady", 0, 0, 0)
    /\ guildsTreeInitialized' = TRUE
    /\ LET dmNode == Len(nodes) + 1
           ns1 == AddChild(Append(ClearChildren(nodes, Root),
                                  NewTreeNode("Direct Messages")), Root, dmNode)
       IN  nodes' = buildFolders(ns1, folders, ind)
    /\ readyFolders' = folders
    /\ UNCHANGED <<queue, workers, selectedChannel, ind>>

\* onReady: runs in the event dispatcher's goroutine and builds the tree there
OnReady(folders) ==
    /\ UNCHANGED sideVars
    /\ MayArrive
    /\ guildsTreeInitialized => events < MaxEvents
    /\ events' = IF guildsTreeInitialized THEN events + 1 ELSE events
    /\ UNCHANGED inputs
    /\ lastOp' = Op("onReady", 0, 0, 0)
    /\ IF guildsTreeInitialized
       THEN UNCHANGED <<nodes, guildsTreeInitialized, readyFolders>>
       ELSE /\ guildsTreeInitialized' = TRUE
            /\ LET dmNode == Len(nodes) + 1
                   ns1 == AddChild(Append(ClearChildren(nodes, Root),
                                          NewTreeNode("Direct Messages")), Root, dmNode)
               IN  nodes' = buildFolders(ns1, folders, ind)
            /\ readyFolders' = folders
    /\ UNCHANGED <<queue, workers, selectedChannel, ind>>

\* onChannelCreate
OnChannelCreate(c) ==
    /\ UNCHANGED sideVars
    /\ events < MaxEvents /\ MayArrive
    /\ events' = events + 1
    /\ UNCHANGED inputs
    /\ UNCHANGED lastOp
    /\ queue' = IF ~IsDMType(Channel(c).type) THEN queue
                ELSE Append(queue, [Task EXCEPT !.kind = "channelCreate", !.ch = c])
    /\ UNCHANGED <<nodes, workers, selectedChannel, ind, guildsTreeInitialized,
                   readyFolders>>

\* the closure of onChannelCreate
RunChannelCreate ==
    /\ UNCHANGED sideVars
    /\ HeadIs("channelCreate")
    /\ LET c == Head(queue).ch
           dmNode == FindDMGroup(nodes)
           exists == dmNode # 0 /\ FindByRef(nodes, dmNode, ChanRef(c)) # 0
       IN  /\ nodes' = IF dmNode = 0 \/ exists THEN nodes
                       ELSE createChannelNode(nodes, dmNode, Channel(c), ind)
           /\ lastOp' = Op("channelCreate", c, 0, 0)
    /\ queue' = Tail(queue)
    /\ UNCHANGED <<workers, selectedChannel, ind, guildsTreeInitialized, readyFolders,
                   events, inputs>>

\* whether channel c has a node among the children of "Direct Messages"
HasDMNode(ns, c) == \E i \in 1..Len(DMChildren(ns)) : ns[DMChildren(ns)[i]].ref = ChanRef(c)

\* onMessageCreate
OnMessageCreate(c) ==
    /\ UNCHANGED sideVars
    /\ events < MaxEvents /\ MayArrive
    /\ events' = events + 1
    /\ UNCHANGED inputs
    /\ LET isCurrentChannel == selectedChannel # 0 /\ selectedChannel = c
           isDM == IsDMType(Channel(c).type)
           ws1 == IF isCurrentChannel
                  THEN Spawn(workers, [Task EXCEPT !.kind = "markRead", !.ch = c])
                  ELSE workers
           w == IF isDM
                THEN IF ~isCurrentChannel
                     THEN [Task EXCEPT !.kind = "updateDMStyleAndMove", !.ch = c, !.force = TRUE,
                                       !.had = HasDMNode(nodes, c)]
                     ELSE [Task EXCEPT !.kind = "moveDMToTopOnMessage", !.ch = c,
                                       !.had = HasDMNode(nodes, c)]
                ELSE [Task EXCEPT !.kind = "updateChannelStyle", !.ch = c,
                                  !.guild = Channel(c).guild]
       IN  /\ workers' = Spawn(ws1, w)
           /\ UNCHANGED lastOp
    /\ UNCHANGED <<nodes, queue, selectedChannel, ind, guildsTreeInitialized,
                   readyFolders>>

\* `go discordState.ReadState.MarkRead(...)` of onMessageCreate
MarkRead ==
    \E w \in Running("markRead") :
        /\ UNCHANGED sideVars
        /\ workers' = Finish(workers, w)
        /\ ind' = [ind EXCEPT ![w.ch] = "read"]
        /\ queue' = queue \o MarkReadUpdates(ind, w.ch)
        /\ UNCHANGED lastOp
        /\ UNCHANGED <<nodes, selectedChannel, guildsTreeInitialized,
                       readyFolders, events, inputs>>

\* a change of the read state of channel c to indication v, announced by a
\* read.UpdateEvent: onReadUpdate
OnReadUpdate(c, v) ==
    /\ UNCHANGED sideVars
    /\ events < MaxEvents /\ MayArrive
    /\ events' = events + 1
    /\ UNCHANGED inputs
    /\ v # ind[c]
    /\ ind' = [ind EXCEPT ![c] = v]
    /\ queue' = Append(queue, [Task EXCEPT !.kind = "readUpdate", !.ch = c,
                                           !.guild = Channel(c).guild])
    /\ UNCHANGED lastOp
    /\ UNCHANGED <<nodes, workers, selectedChannel, guildsTreeInitialized,
                   readyFolders>>

\* the nodes on which a Walk from `start` runs the body of a callback that
\* matches the nodes of M and returns false on them
Matches(ns, start, M) ==
    LET w == Walk(ns, start, 0, M) IN {w[i][1] : i \in 1..Len(w)} \cap M

RefIs(ns, ref) == {n \in 1..Len(ns) : ns[n].ref = ref}

\* a closure that repaints the whole subtree of the guild with the style of
\* the channel
readUpdate_Subtree(ns, g, c, rs) ==
    LET guildNode == IF g = 0 THEN Root ELSE FindByRef(ns, Root, GuildRef(g))
        sub == IF guildNode = 0 THEN {}
               ELSE {Visited(ns, guildNode)[i][1] : i \in 1..Len(Visited(ns, guildNode))}
    IN  [n \in 1..Len(ns) |->
            IF n \in sub /\ n # Root
            THEN [ns[n] EXCEPT !.style = getChannelNodeStyle(rs, c), !.forced = FALSE]
            ELSE ns[n]]

\* the tree after the closure of onReadUpdate for (guildID, channelID)
readUpdate(ns, g, c, rs) ==
    LET \* first Walk, from the root
        guildHits == IF g = 0 THEN {} ELSE Matches(ns, Root, RefIs(ns, GuildRef(g)))
        chanHits == IF g = 0 THEN Matches(ns, Root, RefIs(ns, ChanRef(c))) ELSE {}
        guildNode == IF g = 0 THEN 0 ELSE FindByRef(ns, Root, GuildRef(g))
        \* second Walk, from the guild node when it is expanded
        inner == IF guildNode # 0 /\ ns[guildNode].expanded
                 THEN Matches(ns, guildNode, RefIs(ns, ChanRef(c))) ELSE {}
    IN  [n \in 1..Len(ns) |->
            IF n \in guildHits
            THEN [ns[n] EXCEPT !.style = getGuildNodeStyle(rs, g), !.forced = FALSE]
            ELSE IF n \in chanHits \cup inner
            THEN [ns[n] EXCEPT !.style = getChannelNodeStyle(rs, c), !.forced = FALSE]
            ELSE ns[n]]

\* the closure of onReadUpdate
RunReadUpdate ==
    /\ UNCHANGED sideVars
    /\ HeadIs("readUpdate")
    /\ nodes' = readUpdate(nodes, Head(queue).guild, Head(queue).ch, ind)
    /\ lastOp' = Op("readUpdate", Head(queue).ch, 0,
                    Cardinality({n \in 1..Len(nodes) : nodes'[n].style # nodes[n].style}))
    /\ queue' = Tail(queue)
    /\ UNCHANGED <<workers, selectedChannel, ind, guildsTreeInitialized, readyFolders,
                   events, inputs>>

----------------------------------------------------------------------------
(* Strings *)

\* A string is the sequence of its characters' code points.  The literals
\* of tview markup ("[green::b]", "[-]", ...) are plain ASCII and never hold
\* the character U+2500; each is written as one code below 0.
Glyph == 9472                       \* "─", U+2500
Space == 32

\* strings.ToLower on the letters A..Z and on the capital letters of
\* Latin-1 (U+00C0..U+00DE but the multiplication sign)
ToLower(s) ==
    [i \in 1..Len(s) |->
        IF (s[i] >= 65 /\ s[i] <= 90) \/ (s[i] >= 192 /\ s[i] <= 222 /\ s[i] # 215)
        THEN s[i] + 32 ELSE s[i]]

\* strings.Compare / cmp.Compare on strings: -1, 0 or 1, lexicographic
RECURSIVE StrCompare(_, _)
StrCompare(s, t) ==
    IF s = <<>> /\ t = <<>> THEN 0
    ELSE IF s = <<>> THEN -1
    ELSE IF t = <<>> THEN 1
    ELSE IF Head(s) < Head(t) THEN -1
    ELSE IF Head(s) > Head(t) THEN 1
    ELSE StrCompare(Tail(s), Tail(t))

\* strings.Contains(s, "─")
ContainsGlyph(s) == \E i \in 1..Len(s) : s[i] = Glyph

----------------------------------------------------------------------------
(* The member cache (discordState.Cabinet) as the members list reads it *)

Statuses == {"online", "idle", "dnd", "offline", "invisible"}

\* discord.Member with its discord.User
Member(id, nick, displayName, username, roleIDs) ==
    [id |-> id, nick |-> nick, displayName |-> displayName, username |-> username,
     roleIDs |-> roleIDs]

\* discord.Role; `cached` is whether Cabinet.Role finds it
Role(id, name, color, position) ==
    [id |-> id, cached |-> TRUE, name |-> name, color |-> color, position |-> position]
NoRole == [id |-> 0, cached |-> FALSE, name |-> <<>>, color |-> 0, position |-> 0]

\* User.DisplayOrUsername
DisplayOrUsername(m) == IF m.displayName # <<>> THEN m.displayName ELSE m.username

\* the orders in which the elements of a finite set can be listed
Orders(S) == {f \in [1..Cardinality(S) -> S] : \A i, j \in 1..Cardinality(S) : f[i] = f[j] => i = j}

\* Cabinet.Members(guildID): an error when the cabinet holds no member list
\* for the guild, else the members in the order of a map iteration
CabinetMembers(c, g) ==
    IF ~c.members[g].ok THEN {[err |-> TRUE, members |-> <<>>]}
    ELSE {[err |-> FALSE, members |-> o] : o \in Orders(c.members[g].set)}

----------------------------------------------------------------------------
(* membersList, cmd/members_list.go *)

\* membersList.getPresence: the status of the cached presence, offline when
\* Cabinet.Presence fails
getPresence(c, g, u) == IF c.presence[g][u] = "none" THEN "offline" ELSE c.presence[g][u]

\* loop of getRoleInfo over member.RoleIDs
RECURSIVE roleLoop(_, _, _, _)
roleLoop(c, roleIDs, highestRole, highestPos) ==
    IF roleIDs = <<>> THEN highestRole
    ELSE LET role == c.roles[Head(roleIDs)]
         IN  IF role.cached /\ role.color # 0 /\ role.position > highestPos
             THEN roleLoop(c, Tail(roleIDs), role, role.position)
             ELSE roleLoop(c, Tail(roleIDs), highestRole, highestPos)

\* membersList.getRoleInfo: NoRole stands for nil
getRoleInfo(c, member) ==
    IF member.roleIDs = <<>> THEN NoRole ELSE roleLoop(c, member.roleIDs, NoRole, 0)

\* memberItem; getPresence never returns nil
memberItem(c, g, member) ==
    [member |-> member, presence |-> getPresence(c, g, member.id),
     roleInfo |-> getRoleInfo(c, member)]

\* statusOrder[status]: a status that is no key of the map gives 0
statusOrder(status) ==
    CASE status = "online" -> 0
      [] status = "idle" -> 1
      [] status = "dnd" -> 2
      [] status = "offline" -> 3
      [] status = "invisible" -> 3
      [] OTHER -> 0

\* the name a member is listed under: the nickname if set
ListedName(m) == IF m.nick # <<>> THEN m.nick ELSE DisplayOrUsername(m)

\* membersList.sortMembers(a, b)
sortMembers(a, b) ==
    IF statusOrder(a.presence) # statusOrder(b.presence)
    THEN (IF statusOrder(a.presence) < statusOrder(b.presence) THEN -1 ELSE 1)
    ELSE StrCompare(ToLower(ListedName(a.member)), ToLower(ListedName(b.member)))

\* slices.SortFunc(memberItems, ml.sortMembers): for at most 12 elements the
\* insertion sort of the standard library
Swap(data, i, j) == [data EXCEPT ![i] = data[j], ![j] = data[i]]

RECURSIVE insertDown(_, _)
insertDown(data, j) ==
    IF j > 1 /\ sortMembers(data[j], data[j-1]) < 0
    THEN insertDown(Swap(data, j, j - 1), j - 1)
    ELSE data

RECURSIVE insertionSort(_, _)
insertionSort(data, i) ==
    IF i > Len(data) THEN data ELSE insertionSort(insertDown(data, i), i + 1)

SortFunc(data) == insertionSort(data, 2)

\* "No Role"
NoRoleName == <<78, 111, 32, 82, 111, 108, 101>>

\* the key of groupMembersByRole for an item
roleName(item) == IF item.roleInfo # NoRole THEN item.roleInfo.name ELSE NoRoleName

\* membersList.groupMembersByRole: role name -> the items of that name, in
\* the order of `items`
groupMembersByRole(items) ==
    [name \in {roleName(items[i]) : i \in 1..Len(items)} |->
        SelectSeq(items, LAMBDA it : roleName(it) = name)]

\* slices.Sort(roleNames): the keys of the map, ascending
RECURSIVE SortNames(_)
SortNames(S) ==
    IF S = {} THEN <<>>
    ELSE LET least == CHOOSE s \in S : \A t \in S : StrCompare(s, t) <= 0
         IN  <<least>> \o SortNames(S \ {least})

\* membersList.getStatusIndicator: one markup literal per case
getStatusIndicator(status) ==
    CASE status = "online" -> <<-1>>
      [] status = "idle" -> <<-2>>
      [] status = "dnd" -> <<-3>>
      [] OTHER -> <<-4>>

\* membersList.formatMemberText
formatMemberText(item) ==
    LET name == IF item.member.nick # <<>> THEN item.member.nick
                ELSE DisplayOrUsername(item.member)
        text == getStatusIndicator(item.presence) \o <<Space>> \o
                (IF item.roleInfo # NoRole /\ item.roleInfo.color # 0
                 THEN <<-5>> \o name \o <<-6>> ELSE name)
    IN  IF item.presence = "offline" \/ item.presence = "invisible"
        THEN <<-7>> \o text \o <<-8>> ELSE text

\* a row of the tview.List: its main text; `user` is not a value of the
\* program: it records the member the row was rendered for (0: none)
Row(text, user) == [text |-> text, user |-> user]

\* "Failed to load members"
FailedText == <<70, 97, 105, 108, 101, 100>>

\* fmt.Sprintf("─ %s ─", roleName)
HeaderText(name) == <<Glyph, Space>> \o name \o <<Space, Glyph>>

\* the loop of rebuildList over the sorted role names: the rows, and the
\* entries of memberItems (user id -> list index, from 0)
RECURSIVE addSections(_, _, _, _)
addSections(roleNames, grouped, rows, items) ==
    IF roleNames = <<>> THEN [rows |-> rows, memberItems |-> items]
    ELSE LET roleMembers == grouped[Head(roleNames)]
             header == Append(rows, Row(HeaderText(Head(roleNames)), 0))
             itemIndex == Len(header)
             entries == [i \in 1..Len(roleMembers) |->
                           Row(formatMemberText(roleMembers[i]), roleMembers[i].member.id)]
             ids == {roleMembers[i].member.id : i \in 1..Len(roleMembers)}
             items1 == [u \in DOMAIN items \cup ids |->
                          IF u \in ids
                          THEN itemIndex - 1 +
                               (CHOOSE i \in 1..Len(roleMembers) :
                                   /\ roleMembers[i].member.id = u
                                   /\ \A j \in (i+1)..Len(roleMembers) : roleMembers[j].member.id # u)
                          ELSE items[u]]
         IN  addSections(Tail(roleNames), grouped, header \o entries, items1)

\* a build that goes on while the panel is hidden
rebuildList_Hidden(m, c, res) ==
    IF m.currentGuildID = 0 THEN [m EXCEPT !.rows = <<>>]
    ELSE IF res.err THEN [m EXCEPT !.rows = <<Row(FailedText, 0)>>]
    ELSE LET memberItems == [i \in 1..Len(res.members) |->
                                memberItem(c, m.currentGuildID, res.members[i])]
             grouped == groupMembersByRole(SortFunc(memberItems))
             built == addSections(SortNames(DOMAIN grouped), grouped, <<>>, <<>>)
         IN  [m EXCEPT !.rows = built.rows, !.memberItems = built.memberItems]

\* membersList.rebuildList; res is what Cabinet.Members(ml.currentGuildID)
\* returns when the build reads it
rebuildList(m, c, res) ==
    IF m.currentGuildID = 0 THEN [m EXCEPT !.rows = <<>>]
    ELSE IF ~m.visible THEN m
    ELSE IF res.err THEN [m EXCEPT !.rows = <<Row(FailedText, 0)>>]
    ELSE LET memberItems == [i \in 1..Len(res.members) |->
                                memberItem(c, m.currentGuildID, res.members[i])]
             grouped == groupMembersByRole(SortFunc(memberItems))
             built == addSections(SortNames(DOMAIN grouped), grouped, <<>>, <<>>)
         IN  [m EXCEPT !.rows = built.rows, !.memberItems = built.memberItems]

\* the member items of rebuildList after slices.SortFunc, for the members
\* as Cabinet.Members returned them
sortedItems(c, g, members) ==
    SortFunc([i \in 1..Len(members) |-> memberItem(c, g, members[i])])

\* whether rebuildList reaches its call of Cabinet.Members
rebuildReads(m) == m.currentGuildID # 0 /\ m.visible

\* the gateway commands and subscriptions a handler issues
Subscribe(g) == [cmd |-> "subscribe", id |-> g]
RequestGuildMembers(g) == [cmd |-> "requestGuildMembers", id |-> g]

\* what a handler did about the members list: its argument (a guild id, a
\* list index), the commands it issued and the number of times it called
\* Cabinet.Members
MlOp(name, arg, sent, reads) == [op |-> name, arg |-> arg, sent |-> sent, reads |-> reads]

\* membersList.updateForGuild(guildID): the members list afterwards; res is
\* what the call of Cabinet.Members inside rebuildList returns
updateForGuild(m, c, g, res) ==
    IF ~m.visible THEN m ELSE rebuildList([m EXCEPT !.currentGuildID = g], c, res)

\* the member request of updateForGuild, sent when its own call of
\* Cabinet.Members fails or returns no member
updateForGuildSends(m, c, g) ==
    IF m.visible /\ (~c.members[g].ok \/ c.members[g].set = {})
    THEN <<RequestGuildMembers(g)>> ELSE <<>>

\* its calls of Cabinet.Members: its own and that of rebuildList
updateForGuildReads(m) == IF m.visible THEN 2 ELSE 0

\* a toggle that only flips the visibility
toggleMembersList_Flip(m, c, res) == [m EXCEPT !.visible = ~m.visible]

\* chatView.toggleMembersList, cmd/chat_view.go
toggleMembersList(m, c, res) ==
    LET m1 == [m EXCEPT !.visible = ~m.visible]
    IN  IF m1.visible /\ m1.currentGuildID # 0
        THEN updateForGuild(m1, c, m1.currentGuildID, res)
        ELSE m1

----------------------------------------------------------------------------
(* Member events and the members panel, cmd/state.go and cmd/chat_view.go *)

Users == 1..NumUsers

\* the roles of the account's guilds: "M" colored at position 5, "Z"
\* colored at position 1
AccountRoles == <<Role(1, <<77>>, 255, 5), Role(2, <<90>>, 65280, 1)>>

\* the member of a guild that user u is: display names "A", "B", ...
AccountMember(u) ==
    Member(u, <<>>, <<64 + u>>, <<117, 48 + u>>, <<((u - 1) % 2) + 1>>)

\* the same member after a GuildMemberUpdate that set a nickname
Renamed(m) == [m EXCEPT !.nick = <<110, 48 + m.id>>]

\* newMembersList
NewMembersList == [visible |-> FALSE, currentGuildID |-> 0, rows |-> <<>>, memberItems |-> <<>>]

\* the cabinet before any member has been stored
EmptyCabinet ==
    [members |-> [g \in Guilds |-> [ok |-> FALSE, set |-> {}]],
     presence |-> [g \in Guilds |-> [u \in Users |-> "none"]],
     roles |-> AccountRoles]

\* MemberSet / MemberRemove of the cabinet: the stored member of the same
\* user is replaced
MemberSet(c, g, m) ==
    [c EXCEPT !.members[g] = [ok |-> TRUE, set |-> {x \in @.set : x.id # m.id} \cup {m}]]
MemberRemove(c, g, u) ==
    [c EXCEPT !.members[g].set = {x \in @ : x.id # u}]
PresenceSet(c, g, u, status) == [c EXCEPT !.presence[g][u] = status]

RECURSIVE MemberSetAll(_, _, _)
MemberSetAll(c, g, S) ==
    IF S = {} THEN c
    ELSE LET u == CHOOSE x \in S : TRUE
         IN  MemberSetAll(PresenceSet(MemberSet(c, g, AccountMember(u)), g, u, "online"),
                          g, S \ {u})

\* what the call of Cabinet.Members inside rebuildList returns; NoRead when
\* the build returns before the call
NoRead == [err |-> TRUE, members |-> <<>>]
BuildReads(m, c) == IF rebuildReads(m) THEN CabinetMembers(c, m.currentGuildID) ELSE {NoRead}

\* the common shape of onGuildMembersChunk, onGuildMemberAdd,
\* onGuildMemberUpdate, onGuildMemberRemove and onPresenceUpdate: the state
\* has stored the event's data in the cabinet (c1) before the handler runs
memberEvent(name, g, closure, c1) ==
    /\ events < MaxEvents /\ MayArrive
    /\ events' = events + 1
    /\ cab' = c1
    /\ queue' = IF ml.currentGuildID = g /\ ml.visible
                THEN Append(queue, [Task EXCEPT !.kind = closure, !.guild = g])
                ELSE queue
    /\ mlOp' = MlOp(name, g, <<>>, 0)
    /\ UNCHANGED <<mi, messagesList, net, ml, fl, pinnedRows, mainFlex, http, nodes, workers, selectedChannel, ind,
                   guildsTreeInitialized, readyFolders, lastOp, inputs>>

\* onGuildMembersChunk: a chunk with the members S and their presences
OnGuildMembersChunk(g, S) ==
    memberEvent("onGuildMembersChunk", g, "rebuildList", MemberSetAll(cab, g, S))

OnGuildMemberAdd(g, u) ==
    memberEvent("onGuildMemberAdd", g, "rebuildList", MemberSet(cab, g, AccountMember(u)))

OnGuildMemberUpdate(g, u) ==
    memberEvent("onGuildMemberUpdate", g, "rebuildList",
                MemberSet(cab, g, Renamed(AccountMember(u))))

OnGuildMemberRemove(g, u) ==
    memberEvent("onGuildMemberRemove", g, "rebuildList", MemberRemove(cab, g, u))

\* onPresenceUpdate; g = 0 for a presence outside any guild
OnPresenceUpdate(g, u, status) ==
    memberEvent("onPresenceUpdate", g, "updateMemberPresence",
                IF g = 0 THEN cab ELSE PresenceSet(cab, g, u, status))

\* the closure of the four member handlers: membersList.rebuildList()
RunRebuildList ==
    /\ HeadIs("rebuildList")
    /\ \E res \in BuildReads(ml, cab) : ml' = rebuildList(ml, cab, res)
    /\ mlOp' = MlOp("rebuildList", 0, <<>>, IF rebuildReads(ml) THEN 1 ELSE 0)
    /\ queue' = Tail(queue)
    /\ UNCHANGED <<mi, messagesList, net, cab, fl, pinnedRows, mainFlex, http, nodes, workers, selectedChannel, ind,
                   guildsTreeInitialized, readyFolders, lastOp, events, inputs>>

\* an update that shows the panel again before it rebuilds
updateMemberPresence_Show(m, c, res) == rebuildList([m EXCEPT !.visible = TRUE], c, res)

\* membersList.updateMemberPresence(userID)
updateMemberPresence(m, c, res) == IF ~m.visible THEN m ELSE rebuildList(m, c, res)

\* the closure of onPresenceUpdate
RunUpdateMemberPresence ==
    /\ HeadIs("updateMemberPresence")
    /\ \E res \in BuildReads(ml, cab) : ml' = updateMemberPresence(ml, cab, res)
    /\ mlOp' = MlOp("updateMemberPresence", 0, <<>>, IF rebuildReads(ml) THEN 1 ELSE 0)
    /\ queue' = Tail(queue)
    /\ UNCHANGED <<mi, messagesList, net, cab, fl, pinnedRows, mainFlex, http, nodes, workers, selectedChannel, ind,
                   guildsTreeInitialized, readyFolders, lastOp, events, inputs>>

\* the key that shows or hides the members panel: chatView.toggleMembersList
ToggleMembersList ==
    /\ inputs < MaxInputs /\ MayArrive
    /\ inputs' = inputs + 1
    /\ LET m1 == [ml EXCEPT !.visible = ~ml.visible]
           updates == m1.visible /\ m1.currentGuildID # 0
       IN  /\ \E res \in BuildReads(m1, cab) : ml' = toggleMembersList(ml, cab, res)
           /\ mlOp' = MlOp("toggleMembersList", 0,
                           IF updates THEN updateForGuildSends(m1, cab, m1.currentGuildID)
                           ELSE <<>>,
                           IF updates THEN updateForGuildReads(m1) ELSE 0)
    /\ mainFlex' = toggleMembersItem(mainFlex, ml)
    /\ UNCHANGED <<http, mi, messagesList, net, cab, fl, pinnedRows, nodes, queue, workers, selectedChannel, ind,
                   guildsTreeInitialized, readyFolders, lastOp, events>>

\* the private channel the server keeps for a user
DMChannelOf(u) == ((u - 1) % NumDMs) + 1

\* `go initiateDM(userID)`
InitiateDMCmd(u) == [cmd |-> "initiateDM", id |-> u]

\* the user id membersList.onSelected finds for list index `index`: the key
\* of memberItems whose value is the index, 0 when there is none
memberAt(m, index) ==
    IF \E u \in DOMAIN m.memberItems : m.memberItems[u] = index
    THEN CHOOSE u \in DOMAIN m.memberItems : m.memberItems[u] = index
    ELSE 0

\* the user membersList.onSelected(index) initiates a DM with, 0 for none
onSelectedUser(m, index) ==
    IF index < 0 \/ index >= Len(m.rows) THEN 0
    ELSE IF ContainsGlyph(m.rows[index + 1].text) THEN 0
    ELSE memberAt(m, index)

\* the key InitiateDM of the members list: ml.onSelected(ml.GetCurrentItem())
MembersOnSelected(index) ==
    /\ inputs < MaxInputs /\ MayArrive
    /\ inputs' = inputs + 1
    /\ LET userID == onSelectedUser(ml, index)
       IN  /\ workers' = IF userID = 0 THEN workers
                         ELSE Spawn(workers, [Task EXCEPT !.kind = "initiateDM",
                                                          !.ch = DMChannelOf(userID),
                                                          !.user = userID])
           /\ mlOp' = MlOp("membersList.onSelected", index,
                           IF userID = 0 THEN <<>> ELSE <<InitiateDMCmd(userID)>>, 0)
    /\ UNCHANGED <<mi, messagesList, net, ml, cab, fl, pinnedRows, mainFlex, http, nodes, queue, selectedChannel, ind,
                   guildsTreeInitialized, readyFolders, lastOp, events>>

----------------------------------------------------------------------------
(* guildsTree.onSelected, cmd/guilds_tree.go *)

\* the threads of a forum channel among the channels of its guild
ForumThreads(channel) ==
    SelectSeq(CabinetChannels(channel.guild),
              LAMBDA ch : ch.parent = channel.id /\ ch.type = "thread")

RECURSIVE createThreads(_, _, _, _)
createThreads(ns, node, threads, rs) ==
    IF threads = <<>> THEN ns
    ELSE createThreads(createChannelNode(ns, node, Head(threads), rs), node, Tail(threads), rs)

\* onSelected(node), run by the UI goroutine
OnSelected(n) ==
    /\ inputs < MaxInputs /\ MayArrive
    /\ inputs' = inputs + 1
    /\ UNCHANGED events
    /\ n \in Shown(nodes, Root)
    /\ UNCHANGED lastOp
    /\ IF nodes[n].children # <<>>
       THEN /\ nodes' = SetExpanded(nodes, n, ~nodes[n].expanded)
            /\ mlOp' = MlOp("onSelected", 0, <<>>, 0)
            /\ UNCHANGED <<workers, ml>>
       ELSE CASE nodes[n].ref.t = "guild" ->
                  LET ref == nodes[n].ref.id IN
                  \* `go MemberState.Subscribe(ref)`, `go SendGateway(...)`
                  /\ mlOp' = MlOp("onSelected", ref,
                                  <<Subscribe(ref), RequestGuildMembers(ref)>>
                                     \o updateForGuildSends(ml, cab, ref),
                                  updateForGuildReads(ml))
                  /\ IF ml.visible
                     THEN \E res \in CabinetMembers(cab, ref) :
                             ml' = updateForGuild(ml, cab, ref, res)
                     ELSE ml' = [ml EXCEPT !.currentGuildID = ref]
                  \* Cabinet.Channels fails for a guild that is not in the cabinet
                  /\ nodes' = IF ref \notin CachedGuilds THEN nodes
                              ELSE SetExpanded(
                                     createChannelNodes(nodes, n, CabinetChannels(ref), ind),
                                     n, TRUE)
                  /\ UNCHANGED workers
              [] nodes[n].ref.t = "chan" ->
                  LET channel == Channel(nodes[n].ref.id) IN
                  /\ IF IsDMType(channel.type)
                     THEN \* the members panel is hidden in a DM
                          /\ ml' = IF ml.visible THEN toggleMembersList(ml, cab, NoRead) ELSE ml
                          /\ mlOp' = MlOp("onSelected", 0, <<>>, 0)
                     ELSE IF channel.guild # 0
                     THEN /\ mlOp' = MlOp("onSelected", channel.guild,
                                          updateForGuildSends(ml, cab, channel.guild),
                                          updateForGuildReads(ml))
                          /\ IF ml.visible
                             THEN \E res \in CabinetMembers(cab, channel.guild) :
                                     ml' = updateForGuild(ml, cab, channel.guild, res)
                             ELSE ml' = [ml EXCEPT !.currentGuildID = channel.guild]
                     ELSE /\ mlOp' = MlOp("onSelected", 0, <<>>, 0)
                          /\ UNCHANGED ml
                  /\ IF channel.type = "forum"
                     THEN /\ nodes' = SetExpanded(
                                        createThreads(nodes, n, ForumThreads(channel), ind),
                                        n, TRUE)
                          /\ UNCHANGED workers
                     ELSE /\ workers' = Spawn(Spawn(workers,
                                           [Task EXCEPT !.kind = "fetchMessages", !.ch = channel.id]),
                                           [Task EXCEPT !.kind = "updateChannelStyle",
                                                        !.ch = channel.id, !.guild = channel.guild])
                          /\ UNCHANGED nodes
              [] OTHER ->
                  \* case nil: Direct messages folder
                  /\ workers' = Spawn(workers, [Task EXCEPT !.kind = "fetchPrivateChannels",
                                                            !.node = n])
                  /\ nodes' = SetExpanded(nodes, n, TRUE)
                  /\ mlOp' = MlOp("onSelected", 0, <<>>, 0)
                  /\ UNCHANGED ml
    /\ UNCHANGED <<mi, messagesList, net, queue, selectedChannel, ind, guildsTreeInitialized, readyFolders,
                   cab, fl, pinnedRows, http>>
    /\ mainFlex' = IF /\ nodes[n].children = <<>> /\ nodes[n].ref.t = "chan"
                      /\ IsDMType(Channel(nodes[n].ref.id).type) /\ ml.visible
                   THEN toggleMembersItem(mainFlex, ml)
                   ELSE mainFlex

\* msgID of onSelected: the recency surrogate of a private channel whose
\* LastMessageID is lm (0: none)
msgID(c, lm) == IF lm # 0 THEN lm ELSE c

\* slices.SortFunc(channels, descending msgID) on the channels S with last
\* message ids lm; snowflakes are distinct, so the order is total
RECURSIVE SortDescending(_, _)
SortDescending(S, lm) ==
    IF S = {} THEN <<>>
    ELSE LET top == CHOOSE c \in S : \A d \in S : msgID(d, lm[d]) <= msgID(c, lm[c])
         IN  <<top>> \o SortDescending(S \ {top}, lm)

\* message ids: snowflakes newer than every channel id
MessageIDs == {101, 102}

\* the goroutine of case nil, up to its QueueUpdateDraw: PrivateChannels()
\* fails, or returns the private channels S with last message ids lm
FetchPrivateChannels ==
    \E w \in Running("fetchPrivateChannels") :
        /\ UNCHANGED sideVars
        /\ workers' = Finish(workers, w)
        /\ UNCHANGED lastOp
        /\ \/ UNCHANGED queue
           \/ \E S \in SUBSET DMs : \E lm \in [S -> MessageIDs \cup {0}] :
                /\ \A c, d \in S : c # d => msgID(c, lm[c]) # msgID(d, lm[d])
                /\ queue' = Append(queue, [Task EXCEPT !.kind = "createDMNodes",
                                              !.node = w.node,
                                              !.chans = SortDescending(S, lm)])
        /\ UNCHANGED <<nodes, selectedChannel, ind, guildsTreeInitialized,
                       readyFolders, events, inputs>>

\* first closure of case nil: one node per fetched channel, default style
RECURSIVE createDMNodes(_, _, _)
createDMNodes(ns, node, chans) ==
    IF chans = <<>> THEN ns
    ELSE LET channelNode == [NewTreeNode("channel") EXCEPT !.ref = ChanRef(Head(chans))]
         IN  createDMNodes(AddChild(Append(ns, channelNode), node, Len(ns) + 1),
                           node, Tail(chans))

RunCreateDMNodes ==
    /\ UNCHANGED sideVars
    /\ HeadIs("createDMNodes")
    /\ LET t == Head(queue)
           k == Len(t.chans)
       IN  /\ nodes' = SetExpanded(createDMNodes(nodes, t.node, t.chans), t.node, TRUE)
           /\ workers' = Spawn(workers, [Task EXCEPT !.kind = "computeDMStyles",
                                  !.chans = t.chans,
                                  !.refs = [i \in 1..k |-> Len(nodes) + i]])
           /\ lastOp' = Op("createDMNodes", 0, t.node, 0)
    /\ queue' = Tail(queue)
    /\ UNCHANGED <<selectedChannel, ind, guildsTreeInitialized, readyFolders, events, inputs>>

\* the goroutine started by the first closure: the styles are computed
\* off the UI goroutine ...
ComputeDMStyles ==
    \E w \in Running("computeDMStyles") :
        /\ UNCHANGED sideVars
        /\ workers' = Spawn(Finish(workers, w),
                            [w EXCEPT !.kind = "queueDMStyles",
                                      !.styles = [i \in 1..Len(w.chans) |->
                                                     getChannelNodeStyle(ind, w.chans[i])]])
        /\ UNCHANGED <<lastOp, queue>>
        /\ UNCHANGED <<nodes, selectedChannel, ind, guildsTreeInitialized,
                       readyFolders, events, inputs>>

\* ... and then handed over in a second closure
QueueDMStyles ==
    \E w \in Running("queueDMStyles") :
        /\ UNCHANGED sideVars
        /\ workers' = Finish(workers, w)
        /\ queue' = Append(queue, [Task EXCEPT !.kind = "applyDMStyles", !.refs = w.refs,
                                                !.styles = w.styles])
        /\ UNCHANGED lastOp
        /\ UNCHANGED <<nodes, selectedChannel, ind, guildsTreeInitialized,
                       readyFolders, events, inputs>>

\* second closure of case nil
RunApplyDMStyles ==
    /\ UNCHANGED sideVars
    /\ HeadIs("applyDMStyles")
    /\ LET t == Head(queue)
       IN  nodes' = [n \in 1..Len(nodes) |->
                       IF \E i \in 1..Len(t.refs) : t.refs[i] = n
                       THEN [nodes[n] EXCEPT
                               !.style = t.styles[CHOOSE i \in 1..Len(t.refs) : t.refs[i] = n],
                               !.forced = FALSE]
                       ELSE nodes[n]]
    /\ lastOp' = Op("applyDMStyles", 0, 0, 0)
    /\ queue' = Tail(queue)
    /\ UNCHANGED <<workers, selectedChannel, ind, guildsTreeInitialized, readyFolders,
                   events, inputs>>

\* the message fetch goroutine of case discord.ChannelID, up to its
\* QueueUpdateDraw: Messages() fails, or returns a page that is empty or not
FetchMessages ==
    \E w \in Running("fetchMessages") :
        /\ UNCHANGED sideVars
        /\ workers' = Finish(workers, w)
        /\ UNCHANGED lastOp
        /\ \/ UNCHANGED <<queue, ind>>
           \/ \E nonEmpty \in BOOLEAN :
                /\ ind' = IF nonEmpty THEN [ind EXCEPT ![w.ch] = "read"] ELSE ind
                /\ queue' = (queue \o (IF nonEmpty THEN MarkReadUpdates(ind, w.ch) ELSE <<>>))
                            \o <<[Task EXCEPT !.kind = "drawMessages", !.ch = w.ch]>>
        /\ UNCHANGED <<nodes, selectedChannel, guildsTreeInitialized,
                       readyFolders, events, inputs>>

\* the pages that Messages() returns, the newest message first
Pages == {<<>>, <<2, 1>>}

\* The same goroutine in two steps.  First Messages() fails and the
\* goroutine returns, or it returns a page, and the goroutine marks the
\* channel read up to the first message of a page that is not empty;
\* requestGuildMembers and HasPermissions follow.
MessagesReturnOf(pages) ==
    \E w \in Running("fetchMessages") :
        /\ \/ /\ workers' = Finish(workers, w)
              /\ UNCHANGED <<queue, ind, net>>
           \/ \E messages \in pages :
                /\ ind' = IF messages # <<>> THEN [ind EXCEPT ![w.ch] = "read"] ELSE ind
                /\ queue' = queue \o (IF messages # <<>> THEN MarkReadUpdates(ind, w.ch) ELSE <<>>)
                /\ workers' = Spawn(Finish(workers, w), [w EXCEPT !.kind = "queueDrawMessages",
                                                                  !.refs = messages])
                /\ net' = [Request("Messages", "worker") EXCEPT !.ch = w.ch]
        /\ UNCHANGED <<ml, cab, mlOp, fl, pinnedRows, mainFlex, http, mi, messagesList, nodes, selectedChannel,
                       guildsTreeInitialized, readyFolders, lastOp, events, inputs>>

\* a goroutine whose closure overtakes the closures that wait in the queue
QueueDrawMessages_Front ==
    \E w \in Running("queueDrawMessages") :
        /\ workers' = Finish(workers, w)
        /\ queue' = <<[Task EXCEPT !.kind = "drawMessages", !.ch = w.ch, !.refs = w.refs]>>
                     \o queue
        /\ UNCHANGED <<sideVars, nodes, selectedChannel, ind, guildsTreeInitialized,
                       readyFolders, lastOp, events, inputs>>

MessagesReturn == MessagesReturnOf(Pages)

\* Then its app.QueueUpdateDraw.
QueueDrawMessages ==
    \E w \in Running("queueDrawMessages") :
        /\ workers' = Finish(workers, w)
        /\ queue' = Append(queue, [Task EXCEPT !.kind = "drawMessages", !.ch = w.ch,
                                               !.refs = w.refs])
        /\ UNCHANGED <<sideVars, nodes, selectedChannel, ind, guildsTreeInitialized,
                       readyFolders, lastOp, events, inputs>>

\* hasNoPerm of the message fetch goroutine: the user may send messages
\* into every private channel and into every guild channel that is shown
hasNoPerm(channel) == ~IsDMType(channel.type) /\ ~HasSendPermission(channel.id)

\* a closure that selects the channel and leaves the message list as it is
RunDrawMessages_Selection ==
    /\ UNCHANGED sideRest
    /\ HeadIs("drawMessages")
    /\ selectedChannel' = Head(queue).ch
    /\ mi' = [mi EXCEPT !.disabled = hasNoPerm(Channel(Head(queue).ch))]
    /\ lastOp' = Op("drawMessages", Head(queue).ch, 0, 0)
    /\ queue' = Tail(queue)
    /\ UNCHANGED <<messagesList, nodes, workers, ind, guildsTreeInitialized, readyFolders,
                   events, inputs>>

\* the closure of the message fetch goroutine: the selected channel, the
\* message list and the state of the input are set together
RunDrawMessages ==
    /\ UNCHANGED sideRest
    /\ HeadIs("drawMessages")
    /\ selectedChannel' = Head(queue).ch
    /\ messagesList' = Head(queue).ch
    /\ mi' = [mi EXCEPT !.disabled = hasNoPerm(Channel(Head(queue).ch))]
    /\ lastOp' = Op("drawMessages", Head(queue).ch, 0, 0)
    /\ queue' = Tail(queue)
    /\ UNCHANGED <<nodes, workers, ind, guildsTreeInitialized, readyFolders, events, inputs>>

----------------------------------------------------------------------------
(* Style updates and DM promotion started by events *)

\* the tree after the Walks of updateChannelStyle(channelID, guildID)
updateChannelStyle(ns, c, g, rs) ==
    LET guildNode == IF g # 0 THEN FindByRef(ns, Root, GuildRef(g)) ELSE 0
        hits == IF g # 0
                THEN IF guildNode # 0 THEN Matches(ns, guildNode, RefIs(ns, ChanRef(c))) ELSE {}
                ELSE Matches(ns, Root, RefIs(ns, ChanRef(c)))
    IN  [n \in 1..Len(ns) |->
            IF n \in hits
            THEN [ns[n] EXCEPT !.style = getChannelNodeStyle(rs, c), !.forced = FALSE]
            ELSE ns[n]]

\* `go gt.updateChannelStyle(...)`: the goroutine sets the style itself and
\* then enqueues an empty closure; its Walks are unsynchronised too and may
\* miss the node while a closure is pending
UpdateChannelStyle ==
    \E w \in Running("updateChannelStyle") :
        /\ UNCHANGED sideVars
        /\ workers' = Finish(workers, w)
        /\ nodes' \in {updateChannelStyle(nodes, w.ch, w.guild, ind)}
                         \cup (IF queue # <<>> THEN {nodes} ELSE {})
        /\ queue' = Append(queue, [Task EXCEPT !.kind = "redraw"])
        /\ UNCHANGED lastOp
        /\ UNCHANGED <<selectedChannel, ind, guildsTreeInitialized, readyFolders, events, inputs>>

\* the empty closure of updateChannelStyle
RunRedraw ==
    /\ UNCHANGED sideVars
    /\ HeadIs("redraw")
    /\ queue' = Tail(queue)
    /\ lastOp' = Op("redraw", 0, 0, 0)
    /\ UNCHANGED <<nodes, workers, selectedChannel, ind, guildsTreeInitialized,
                   readyFolders, events, inputs>>

\* The Walk of a goroutine reads the tree without synchronisation.  While a
\* closure of the update queue is pending, the UI goroutine may be changing
\* child slices under the Walk (moveDMToTop clears and refills them), and
\* the Walk may then miss the node: its result is the node or nil.
RacyFind(ns, ref) == {FindByRef(ns, Root, ref)} \cup (IF queue # <<>> THEN {0} ELSE {})

\* `go gt.updateDMStyleAndMove(channelID, true)`, up to its QueueUpdateDraw
UpdateDMStyleAndMove ==
    \E w \in Running("updateDMStyleAndMove") : \E dmNode \in RacyFind(nodes, ChanRef(w.ch)) :
        /\ UNCHANGED sideVars
        /\ workers' = Finish(workers, w)
        /\ queue' = IF dmNode = 0 THEN queue
                    ELSE Append(queue, [Task EXCEPT !.kind = "styleAndMove", !.ch = w.ch,
                                                    !.node = dmNode, !.force = w.force,
                                                    !.had = w.had])
        /\ UNCHANGED lastOp
        /\ UNCHANGED <<nodes, selectedChannel, ind, guildsTreeInitialized,
                       readyFolders, events, inputs>>

\* a closure that ignores forceUnread and always applies the computed style
styleAndMove_Computed(ns, dmNode, c, forceUnread, rs) ==
    moveDMToTop(SetTextStyle(ns, dmNode, getChannelNodeStyle(rs, c), FALSE), dmNode)

\* the tree after the closure of updateDMStyleAndMove
styleAndMove(ns, dmNode, c, forceUnread, rs) ==
    moveDMToTop(IF forceUnread
                THEN SetTextStyle(ns, dmNode, unreadStyle("unread"), TRUE)
                ELSE SetTextStyle(ns, dmNode, getChannelNodeStyle(rs, c), FALSE),
                dmNode)

RunStyleAndMove ==
    /\ UNCHANGED sideVars
    /\ HeadIs("styleAndMove")
    /\ LET t == Head(queue)
       IN  /\ nodes' = styleAndMove(nodes, t.node, t.ch, t.force, ind)
           /\ lastOp' = Op("styleAndMove", t.ch, t.node, DMIndex(nodes, t.node))
    /\ queue' = Tail(queue)
    /\ UNCHANGED <<workers, selectedChannel, ind, guildsTreeInitialized, readyFolders,
                   events, inputs>>

\* `go gt.moveDMToTopOnMessage(channelID)`, up to its QueueUpdateDraw
MoveDMToTopOnMessage ==
    \E w \in Running("moveDMToTopOnMessage") : \E dmNode \in RacyFind(nodes, ChanRef(w.ch)) :
        /\ UNCHANGED sideVars
        /\ workers' = Finish(workers, w)
        /\ queue' = IF dmNode = 0 THEN queue
                    ELSE Append(queue, [Task EXCEPT !.kind = "moveOnMessage", !.ch = w.ch,
                                                    !.node = dmNode, !.had = w.had])
        /\ UNCHANGED lastOp
        /\ UNCHANGED <<nodes, selectedChannel, ind, guildsTreeInitialized,
                       readyFolders, events, inputs>>

\* a closure that forces the unread style as updateDMStyleAndMove does
moveOnMessage_Forced(ns, dmNode) ==
    moveDMToTop(SetTextStyle(ns, dmNode, unreadStyle("unread"), TRUE), dmNode)

\* the tree after the closure of moveDMToTopOnMessage
moveOnMessage(ns, dmNode) == moveDMToTop(ns, dmNode)

RunMoveOnMessage ==
    /\ UNCHANGED sideVars
    /\ HeadIs("moveOnMessage")
    /\ nodes' = moveOnMessage(nodes, Head(queue).node)
    /\ lastOp' = Op("moveOnMessage", Head(queue).ch, Head(queue).node,
                    DMIndex(nodes, Head(queue).node))
    /\ queue' = Tail(queue)
    /\ UNCHANGED <<workers, selectedChannel, ind, guildsTreeInitialized, readyFolders,
                   events, inputs>>

----------------------------------------------------------------------------
(* initiateDM, cmd/state.go; closeDM, cmd/guilds_tree.go; closeCurrentDM,
   cmd/chat_view.go *)

\* selecting a member or friend row: `go initiateDM(userID)`; c is the
\* private channel the server keeps for that user
InitiateDM(c) ==
    /\ UNCHANGED sideVars
    /\ inputs < MaxInputs /\ MayArrive
    /\ inputs' = inputs + 1
    /\ UNCHANGED events
    /\ workers' = Spawn(workers, [Task EXCEPT !.kind = "initiateDM", !.ch = c])
    /\ UNCHANGED lastOp
    /\ UNCHANGED <<nodes, queue, selectedChannel, ind, guildsTreeInitialized,
                   readyFolders>>

\* initiateDM up to its QueueUpdateDraw: CreatePrivateChannel or Messages
\* fails, or both succeed
FetchDM ==
    \E w \in Running("initiateDM") :
        /\ UNCHANGED sideVars
        /\ workers' = Finish(workers, w)
        /\ UNCHANGED lastOp
        /\ \/ UNCHANGED queue
           \/ queue' = Append(queue, [Task EXCEPT !.kind = "openDM", !.ch = w.ch])
        /\ UNCHANGED <<nodes, selectedChannel, ind, guildsTreeInitialized,
                       readyFolders, events, inputs>>

\* a closure of initiateDM that selects the channel without looking for the
\* "Direct Messages" node
RunOpenDM_Unchecked ==
    /\ UNCHANGED sideRest
    /\ HeadIs("openDM")
    /\ lastOp' = Op("openDM", Head(queue).ch, 0, 0)
    /\ selectedChannel' = Head(queue).ch
    /\ messagesList' = Head(queue).ch
    /\ mi' = [mi EXCEPT !.disabled = FALSE]
    /\ queue' = Tail(queue)
    /\ UNCHANGED <<nodes, workers, ind, guildsTreeInitialized, readyFolders, events, inputs>>

\* the closure of initiateDM
RunOpenDM ==
    /\ UNCHANGED sideRest
    /\ HeadIs("openDM")
    /\ LET c == Head(queue).ch
           dmNode == FindDMGroup(nodes)
           exists == dmNode # 0 /\ FindByRef(nodes, dmNode, ChanRef(c)) # 0
       IN  /\ lastOp' = Op("openDM", c, 0, 0)
           /\ IF dmNode = 0
              THEN UNCHANGED <<nodes, selectedChannel, messagesList, mi>>
              ELSE /\ nodes' = IF exists THEN nodes
                               ELSE SetExpanded(createChannelNode(nodes, dmNode, Channel(c), ind),
                                                dmNode, TRUE)
                   /\ selectedChannel' = c
                   /\ messagesList' = c
                   /\ mi' = [mi EXCEPT !.disabled = FALSE]
    /\ queue' = Tail(queue)
    /\ UNCHANGED <<workers, ind, guildsTreeInitialized, readyFolders, events, inputs>>

\* the parent found by the Walk of closeDM: the node's parent in the tree
ParentOf(ns, n) ==
    LET w == Visited(ns, Root)
    IN  IF \E i \in 1..Len(w) : w[i][1] = n /\ w[i][2] # 0
        THEN w[CHOOSE i \in 1..Len(w) : w[i][1] = n /\ w[i][2] # 0][2]
        ELSE 0

\* a closeDM that leaves the selection alone
closeDM_KeepSelection(n, known, go) ==
    /\ UNCHANGED sideVars
    /\ inputs < MaxInputs /\ MayArrive
    /\ n \in Shown(nodes, Root)
    /\ LET ref == nodes[n].ref
           dmNode == ParentOf(nodes, n)
       IN  IF \/ ref.t # "chan" \/ ref.id = 0 \/ ~known
              \/ ~IsDMType(Channel(ref.id).type) \/ dmNode = 0
           THEN UNCHANGED <<nodes, lastOp, inputs, workers>>
           ELSE /\ nodes' = RemoveChild(nodes, dmNode, n)
                /\ lastOp' = Op("closeDM", ref.id, n, 0)
                /\ inputs' = inputs + 1
                /\ workers' = IF go THEN Spawn(workers, [Task EXCEPT !.kind = "deleteChannel",
                                                                     !.ch = ref.id])
                              ELSE workers
    /\ UNCHANGED <<queue, selectedChannel, ind, guildsTreeInitialized, readyFolders, events>>

\* closeDM with current node n; known tells whether Cabinet.Channel finds
\* the channel of the node, and go whether the goroutine that deletes the
\* channel on the server is followed (it changes nothing of the client's
\* state)
closeDM(n, known, go) ==
    /\ UNCHANGED sideRest
    /\ inputs < MaxInputs /\ MayArrive
    /\ n \in Shown(nodes, Root)
    /\ LET ref == nodes[n].ref
           dmNode == ParentOf(nodes, n)
       IN  IF \/ ref.t # "chan" \/ ref.id = 0 \/ ~known
              \/ ~IsDMType(Channel(ref.id).type) \/ dmNode = 0
           THEN UNCHANGED <<nodes, selectedChannel, messagesList, mi, lastOp, inputs, workers>>
           ELSE /\ nodes' = RemoveChild(nodes, dmNode, n)
                /\ IF selectedChannel # 0 /\ selectedChannel = ref.id
                   THEN /\ selectedChannel' = 0
                        /\ messagesList' = 0
                        /\ mi' = [mi EXCEPT !.disabled = TRUE]
                   ELSE UNCHANGED <<selectedChannel, messagesList, mi>>
                /\ lastOp' = Op("closeDM", ref.id, n, 0)
                /\ inputs' = inputs + 1
                /\ workers' = IF go THEN Spawn(workers, [Task EXCEPT !.kind = "deleteChannel",
                                                                     !.ch = ref.id])
                              ELSE workers
    /\ UNCHANGED <<queue, ind, guildsTreeInitialized, readyFolders, events>>

\* closeDM of a node whose channel the cabinet holds, up to its goroutine
CloseDM(n) == closeDM(n, TRUE, FALSE)

\* closeDM of any node, with its goroutine
CloseDMKey(n) == \E known \in BOOLEAN : closeDM(n, known, TRUE)

\* the goroutine of closeDM: DeleteChannel succeeds or fails, and either is
\* logged only
DeleteChannel ==
    \E w \in Running("deleteChannel") : \E err \in BOOLEAN :
        /\ UNCHANGED sideVars
        /\ workers' = Finish(workers, w)
        /\ lastOp' = Op(IF err THEN "deleteFailed" ELSE "deleted", w.ch, 0, 0)
        /\ UNCHANGED <<nodes, queue, selectedChannel, ind, guildsTreeInitialized,
                       readyFolders, events, inputs>>

\* closeCurrentDM
CloseCurrentDM ==
    /\ UNCHANGED sideRest
    /\ inputs < MaxInputs /\ MayArrive
    /\ LET dmNode == FindDMGroup(nodes)
           channelNode == IF dmNode = 0 THEN 0
                          ELSE FindByRef(nodes, dmNode, ChanRef(selectedChannel))
       IN  IF \/ selectedChannel = 0
              \/ ~IsDMType(Channel(selectedChannel).type)
              \/ dmNode = 0
              \/ channelNode = 0
           THEN UNCHANGED <<nodes, selectedChannel, messagesList, mi, lastOp, inputs>>
           ELSE /\ nodes' = RemoveChild(nodes, dmNode, channelNode)
                /\ selectedChannel' = 0
                /\ messagesList' = 0
                /\ mi' = [mi EXCEPT !.disabled = TRUE]
                /\ lastOp' = Op("closeCurrentDM", selectedChannel, channelNode, 0)
                /\ inputs' = inputs + 1
    /\ UNCHANGED <<queue, workers, ind, guildsTreeInitialized, readyFolders, events>>

----------------------------------------------------------------------------
(* The application *)

----------------------------------------------------------------------------
(* friendsList, cmd/friends_list.go; chatView.showFriendsList and
   chatView.showPinnedMessages, cmd/chat_view.go *)

\* discord.Relationship with the display-or-username of its user; type 1
\* is a friend, 2 blocked, 3 a pending incoming and 4 a pending outgoing
\* request
Relationship(user, type, name) == [user |-> user, type |-> type, name |-> name]

\* newFriendsList; friendItems maps a list index (from 0) to a user id,
\* searchQuery holds the bytes of the Go string, visible tells whether the
\* page of the list is shown, and guilds records what Cabinet.Guilds()
\* returned to the last build
NewFriendsList ==
    [rows |-> <<>>, friendItems |-> <<>>, relationships |-> <<>>, searchQuery |-> <<>>,
     title |-> <<-20>>, visible |-> FALSE, guilds |-> <<>>]

\* strings.Contains(s, sub)
Contains(s, sub) == \E i \in 0..(Len(s) - Len(sub)) : SubSeq(s, i + 1, i + Len(sub)) = sub

\* the texts of the friends list and of the pinned messages list, one code
\* per literal
LoadingFriendsText == <<-21>>           \* "Loading friends..."
FailedFriendsText == <<-22>>            \* "Failed to load friends list"
ErrorText == <<-23>>                    \* "Error: " + err.Error()
NoFriendsText == <<-24>>                \* "No friends found"
NoMatchText(q) == <<-25>> \o q          \* "No friends matching '%s'"
OnlineHeader(n) == <<Glyph, Space, -26, 48 + n, Space, Glyph>>
OfflineHeader(n) == <<Glyph, Space, -27, 48 + n, Space, Glyph>>
IncomingHeader == <<Glyph, Space, -28, Space, Glyph>>
OutgoingHeader == <<Glyph, Space, -29, Space, Glyph>>
FailedPinnedText == <<-30>>             \* "Failed to load pinned messages"
NoPinnedText == <<-31>>                 \* "No pinned messages"
PinnedText(i) == <<-32, 48 + i>>        \* "author: content" of message i

\* a cache that keeps the last presence found for the user
presenceCache_Last(c, guilds, u) ==
    LET hits == {i \in 1..Len(guilds) : c.presence[guilds[i]][u] # "none"}
    IN  IF hits = {} THEN "none"
        ELSE c.presence[guilds[CHOOSE i \in hits : \A j \in hits : j <= i]][u]

\* presenceCache[userID] of friendsList.rebuildList: the first presence
\* found for the user in the guilds of Cabinet.Guilds(), "none" for no entry
RECURSIVE presenceCache(_, _, _)
presenceCache(c, guilds, u) ==
    IF guilds = <<>> THEN "none"
    ELSE IF c.presence[Head(guilds)][u] # "none" THEN c.presence[Head(guilds)][u]
    ELSE presenceCache(c, Tail(guilds), u)

\* slices.SortFunc(friends, ...) by the lowercased name: the insertion sort
\* of the standard library
RECURSIVE friendsInsertDown(_, _)
friendsInsertDown(data, j) ==
    IF j > 1 /\ StrCompare(ToLower(data[j].name), ToLower(data[j-1].name)) < 0
    THEN friendsInsertDown(Swap(data, j, j - 1), j - 1)
    ELSE data

RECURSIVE friendsInsertionSort(_, _)
friendsInsertionSort(data, i) ==
    IF i > Len(data) THEN data ELSE friendsInsertionSort(friendsInsertDown(data, i), i + 1)

\* friendsList.formatFriendText(rel, presence)
formatFriendText(rel, presence) ==
    (IF presence = "none" THEN <<-4>> ELSE getStatusIndicator(presence)) \o <<Space>> \o rel.name

\* a section of the list: nothing when `rels` is empty, else its header and
\* one row per relationship
FriendsSection(rows, header, rels, texts) ==
    IF rels = <<>> THEN rows
    ELSE rows \o <<Row(header, 0)>> \o [i \in 1..Len(rels) |-> Row(texts[i], rels[i].user)]

\* the code points of a Go string as strings.ToLower reads them: a byte
\* that starts no valid sequence counts as U+FFFD
RECURSIVE DecodeRunes(_)
DecodeRunes(b) ==
    IF b = <<>> THEN <<>>
    ELSE IF b[1] < 128 THEN <<b[1]>> \o DecodeRunes(Tail(b))
    ELSE IF b[1] >= 194 /\ b[1] <= 223 /\ Len(b) >= 2 /\ b[2] >= 128 /\ b[2] <= 191
    THEN <<(b[1] - 192) * 64 + (b[2] - 128)>> \o DecodeRunes(SubSeq(b, 3, Len(b)))
    ELSE <<65533>> \o DecodeRunes(Tail(b))

\* friendsList.rebuildList; guilds is what Cabinet.Guilds() returns
friendsRebuildList(f, c, guilds) ==
    LET q == f.searchQuery
        title == IF q # <<>> THEN <<-33>> \o q ELSE <<-34>>
        matches(rel) ==
            rel.type = 1 /\ (q = <<>> \/ Contains(ToLower(rel.name), ToLower(DecodeRunes(q))))
        friends == friendsInsertionSort(SelectSeq(f.relationships, matches), 2)
        isOnline(rel) == presenceCache(c, guilds, rel.user) \notin {"none", "offline", "invisible"}
        isOffline(rel) == ~isOnline(rel)
        isIncoming(rel) == rel.type = 3
        isOutgoing(rel) == rel.type = 4
        onlineFriends == SelectSeq(friends, isOnline)
        offlineFriends == SelectSeq(friends, isOffline)
        pendingIncoming == SelectSeq(f.relationships, isIncoming)
        pendingOutgoing == SelectSeq(f.relationships, isOutgoing)
        rows1 == FriendsSection(<<>>, OnlineHeader(Len(onlineFriends)), onlineFriends,
                                [i \in 1..Len(onlineFriends) |->
                                   formatFriendText(onlineFriends[i],
                                                    presenceCache(c, guilds, onlineFriends[i].user))])
        rows2 == FriendsSection(rows1, OfflineHeader(Len(offlineFriends)), offlineFriends,
                                [i \in 1..Len(offlineFriends) |->
                                   formatFriendText(offlineFriends[i], "none")])
        rows3 == IF q # <<>> THEN rows2
                 ELSE FriendsSection(rows2, IncomingHeader, pendingIncoming,
                                     [i \in 1..Len(pendingIncoming) |->
                                        <<-35>> \o pendingIncoming[i].name \o <<-36>>])
        rows4 == IF q # <<>> THEN rows3
                 ELSE FriendsSection(rows3, OutgoingHeader, pendingOutgoing,
                                     [i \in 1..Len(pendingOutgoing) |->
                                        <<-37>> \o pendingOutgoing[i].name \o <<-38>>])
        rows5 == IF q # <<>> /\ friends = <<>> THEN Append(rows4, Row(NoMatchText(q), 0))
                 ELSE rows4
    IN  IF f.relationships = <<>>
        THEN [f EXCEPT !.rows = <<Row(NoFriendsText, 0)>>, !.friendItems = <<>>,
                       !.title = title, !.guilds = <<>>]
        ELSE [f EXCEPT !.rows = rows5,
                       !.friendItems = [i \in {j - 1 : j \in {k \in 1..Len(rows5) : rows5[k].user # 0}}
                                          |-> rows5[i + 1].user],
                       !.title = title, !.guilds = guilds]

\* no goroutine or closure of a friends list is under way
FriendsIdle ==
    /\ \A w \in BagToSet(workers) : w.kind \notin {"friendsList.show", "fetchRelationships"}
    /\ \A i \in 1..Len(queue) :
          queue[i].kind \notin {"friendsLoading", "friendsFailed", "friendsRebuild"}

\* chatView.showFriendsList: a new friends list and `go fl.show()`.  Every
\* call makes a list of its own; the model follows one list at a time.
ShowFriendsList ==
    /\ inputs < MaxInputs /\ MayArrive
    /\ FriendsIdle
    /\ inputs' = inputs + 1
    /\ fl' = [NewFriendsList EXCEPT !.visible = TRUE]
    /\ workers' = Spawn(workers, [Task EXCEPT !.kind = "friendsList.show"])
    /\ UNCHANGED <<mi, messagesList, net, ml, cab, mlOp, pinnedRows, mainFlex, http, nodes, queue, selectedChannel, ind,
                   guildsTreeInitialized, readyFolders, lastOp, events>>

\* friendsList.show up to its call of fetchRelationships: the closure that
\* shows the loading row is queued
FriendsShow ==
    \E w \in Running("friendsList.show") :
        /\ queue' = Append(queue, [Task EXCEPT !.kind = "friendsLoading"])
        /\ workers' = Spawn(Finish(workers, w), [w EXCEPT !.kind = "fetchRelationships"])
        /\ UNCHANGED <<mi, messagesList, net, ml, cab, mlOp, fl, pinnedRows, mainFlex, http, nodes, selectedChannel, ind,
                       guildsTreeInitialized, readyFolders, lastOp, events, inputs>>

\* the relationships the request returns
Fetched ==
    {<<>>,
     <<Relationship(1, 1, <<66>>)>>,
     <<Relationship(1, 1, <<98>>), Relationship(NumUsers, 1, <<65>>)>>,
     <<Relationship(1, 3, <<67>>), Relationship(NumUsers, 4, <<68>>)>>}

\* fetchRelationships and the rest of friendsList.show: the request fails,
\* or it returns relationships, which the goroutine stores in the list
FetchRelationships ==
    \E w \in Running("fetchRelationships") :
        /\ workers' = Finish(workers, w)
        /\ \/ /\ queue' = Append(queue, [Task EXCEPT !.kind = "friendsFailed"])
              /\ UNCHANGED fl
           \/ \E rels \in Fetched :
                 /\ fl' = [fl EXCEPT !.relationships = rels]
                 /\ queue' = Append(queue, [Task EXCEPT !.kind = "friendsRebuild"])
        /\ UNCHANGED <<mi, messagesList, net, ml, cab, mlOp, pinnedRows, mainFlex, http, nodes, selectedChannel, ind,
                       guildsTreeInitialized, readyFolders, lastOp, events, inputs>>

\* the first closure of friendsList.show
RunFriendsLoading ==
    /\ HeadIs("friendsLoading")
    /\ fl' = [fl EXCEPT !.rows = <<Row(LoadingFriendsText, 0)>>]
    /\ queue' = Tail(queue)
    /\ UNCHANGED <<mi, messagesList, net, ml, cab, mlOp, pinnedRows, mainFlex, http, nodes, workers, selectedChannel, ind,
                   guildsTreeInitialized, readyFolders, lastOp, events, inputs>>

\* the closure of friendsList.show for a failed request
RunFriendsFailed ==
    /\ HeadIs("friendsFailed")
    /\ fl' = [fl EXCEPT !.rows = <<Row(FailedFriendsText, 0), Row(ErrorText, 0)>>]
    /\ queue' = Tail(queue)
    /\ UNCHANGED <<mi, messagesList, net, ml, cab, mlOp, pinnedRows, mainFlex, http, nodes, workers, selectedChannel, ind,
                   guildsTreeInitialized, readyFolders, lastOp, events, inputs>>

\* the closure of friendsList.show for a successful request
RunFriendsRebuild ==
    /\ HeadIs("friendsRebuild")
    /\ \E guilds \in Orders(CachedGuilds) : fl' = friendsRebuildList(fl, cab, guilds)
    /\ queue' = Tail(queue)
    /\ UNCHANGED <<mi, messagesList, net, ml, cab, mlOp, pinnedRows, mainFlex, http, nodes, workers, selectedChannel, ind,
                   guildsTreeInitialized, readyFolders, lastOp, events, inputs>>

\* no goroutine or closure of a pinned messages list is under way
PinnedIdle ==
    /\ Running("pinnedMessages") = {}
    /\ \A i \in 1..Len(queue) : queue[i].kind \notin {"pinnedFailed", "pinnedEmpty", "pinnedFill"}

\* chatView.showPinnedMessages: nothing without a selected channel, else a
\* new empty list and the goroutine that fetches the pinned messages.  Every
\* call makes a list of its own; the model follows one list at a time.
ShowPinnedMessages ==
    /\ inputs < MaxInputs /\ MayArrive
    /\ PinnedIdle
    /\ inputs' = inputs + 1
    /\ IF selectedChannel = 0
       THEN UNCHANGED <<pinnedRows, workers>>
       ELSE /\ pinnedRows' = <<>>
            /\ workers' = Spawn(workers, [Task EXCEPT !.kind = "pinnedMessages",
                                                     !.ch = selectedChannel])
    /\ UNCHANGED <<mi, messagesList, net, ml, cab, mlOp, fl, mainFlex, http, nodes, queue, selectedChannel, ind,
                   guildsTreeInitialized, readyFolders, lastOp, events>>

\* the goroutine of showPinnedMessages: PinnedMessages fails, returns no
\* message, or returns the messages 1..n
FetchPinned ==
    \E w \in Running("pinnedMessages") :
        /\ workers' = Finish(workers, w)
        /\ \/ queue' = Append(queue, [Task EXCEPT !.kind = "pinnedFailed", !.ch = w.ch])
           \/ queue' = Append(queue, [Task EXCEPT !.kind = "pinnedEmpty", !.ch = w.ch])
           \/ \E n \in 1..MaxPinned :
                 queue' = Append(queue, [Task EXCEPT !.kind = "pinnedFill", !.ch = w.ch,
                                                     !.refs = [i \in 1..n |-> i]])
        /\ UNCHANGED <<mi, messagesList, net, ml, cab, mlOp, fl, pinnedRows, mainFlex, http, nodes, selectedChannel, ind,
                       guildsTreeInitialized, readyFolders, lastOp, events, inputs>>

\* the three closures of the goroutine
RunPinnedFailed ==
    /\ HeadIs("pinnedFailed")
    /\ pinnedRows' = Append(pinnedRows, Row(FailedPinnedText, 0))
    /\ queue' = Tail(queue)
    /\ UNCHANGED <<mi, messagesList, net, ml, cab, mlOp, fl, mainFlex, http, nodes, workers, selectedChannel, ind,
                   guildsTreeInitialized, readyFolders, lastOp, events, inputs>>

RunPinnedEmpty ==
    /\ HeadIs("pinnedEmpty")
    /\ pinnedRows' = Append(pinnedRows, Row(NoPinnedText, 0))
    /\ queue' = Tail(queue)
    /\ UNCHANGED <<mi, messagesList, net, ml, cab, mlOp, fl, mainFlex, http, nodes, workers, selectedChannel, ind,
                   guildsTreeInitialized, readyFolders, lastOp, events, inputs>>

RunPinnedFill ==
    /\ HeadIs("pinnedFill")
    /\ pinnedRows' = pinnedRows \o [i \in 1..Len(Head(queue).refs) |->
                                      Row(PinnedText(Head(queue).refs[i]), 0)]
    /\ queue' = Tail(queue)
    /\ UNCHANGED <<mi, messagesList, net, ml, cab, mlOp, fl, mainFlex, http, nodes, workers, selectedChannel, ind,
                   guildsTreeInitialized, readyFolders, lastOp, events, inputs>>

----------------------------------------------------------------------------
(* messageInput, cmd/message_input.go *)

\* the letters that are typed into the message input: a (one byte in
\* UTF-8) and e with an acute accent (two bytes)
Letters == {97, 233}

\* the UTF-8 encoding of a string of code points below U+0800: Go strings
\* are byte sequences, and len and slicing count bytes
RECURSIVE Utf8(_)
Utf8(s) ==
    IF s = <<>> THEN <<>>
    ELSE (IF Head(s) < 128 THEN <<Head(s)>>
          ELSE <<192 + (Head(s) \div 64), 128 + (Head(s) % 64)>>) \o Utf8(Tail(s))

\* key of searchMember: gID.String() + " " + name
SearchKey(g, name) == <<48 + g, Space>> \o Utf8(name)

\* internal/cache.Cache: the counts recorded under string keys, a set of
\* entries with one entry per key
NewCache == {}
CacheExists(c, key) == \E e \in c : e.key = key
CacheGet(c, key) == (CHOOSE e \in c : e.key = key).count
CacheCreate(c, key, count) == {e \in c : e.key # key} \cup {[key |-> key, count |-> count]}

\* Cache.Invalidate(key, limit), called for a GuildMemberRemove event:
\* entries recorded for a prefix of the key may go
CacheInvalidate(c, key) ==
    {c \ gone : gone \in SUBSET {e \in c : \E n \in 1..Len(key) : e.key = SubSeq(key, 1, n)}}

\* newMessageInput: the input is disabled until a channel is selected; text
\* tells whether the text area holds text, name is
\* the word under the cursor, which follows an @; lastSearch is "zero"
\* (never), "recent" (less than SearchFrequency ago) or "old"; sent is the
\* member searches the last run of searchMember requested
NewMessageInput ==
    [disabled |-> TRUE, text |-> FALSE, name |-> <<>>, cache |-> NewCache,
     lastSearch |-> "zero", sent |-> <<>>]

\* searchMember(gID, name); count is what waitForChunkEvent returns, the
\* number of members in the chunk that ends the wait
searchMember(m, g, name, count) ==
    LET key == SearchKey(g, name)
        k == SubSeq(key, 1, Len(key) - 1)
    IN  IF CacheExists(m.cache, key) THEN [m EXCEPT !.sent = <<>>]
        ELSE IF CacheExists(m.cache, k) /\ CacheGet(m.cache, k) < SearchLimit
        THEN [m EXCEPT !.cache = CacheCreate(@, key, CacheGet(m.cache, k)), !.sent = <<>>]
        ELSE IF m.lastSearch = "recent" THEN [m EXCEPT !.sent = <<>>]
        ELSE [m EXCEPT !.lastSearch = "recent",
                       !.sent = <<[guild |-> g, name |-> name]>>,
                       !.cache = CacheCreate(@, key, count)]

\* onInputCapture for a key that is no command: the closure that runs
\* tabSuggestion is queued from a goroutine of its own and the event goes on
\* to the text area, which changes the word under the cursor
KeyTyped(name) ==
    /\ inputs < MaxInputs /\ MayArrive
    /\ ~mi.disabled
    /\ inputs' = inputs + 1
    /\ mi' = [mi EXCEPT !.name = name, !.text = TRUE]
    /\ workers' = Spawn(workers, [Task EXCEPT !.kind = "queueTabSuggestion"])
    /\ UNCHANGED <<messagesList, ml, cab, mlOp, fl, pinnedRows, mainFlex, http, net, nodes, queue, selectedChannel, ind,
                   guildsTreeInitialized, readyFolders, lastOp, events>>

\* a letter is typed after the word
TypeLetter == Len(mi.name) < MaxQuery /\ \E r \in Letters : KeyTyped(Append(mi.name, r))

\* the last letter of the word is erased
EraseLetter == mi.name # <<>> /\ KeyTyped(SubSeq(mi.name, 1, Len(mi.name) - 1))

\* `go app.QueueUpdateDraw(func() { mi.tabSuggestion() })`
QueueTabSuggestion ==
    \E w \in Running("queueTabSuggestion") :
        /\ workers' = Finish(workers, w)
        /\ queue' = Append(queue, [Task EXCEPT !.kind = "tabSuggestion"])
        /\ UNCHANGED <<ml, cab, mlOp, fl, pinnedRows, mainFlex, http, mi, messagesList, net, nodes, selectedChannel, ind,
                       guildsTreeInitialized, readyFolders, lastOp, events, inputs>>

\* the closure: tabSuggestion for the word that is under the cursor when it
\* runs.  It reads selectedChannel.GuildID without a nil test: with no
\* channel selected the read is a nil dereference, which lastOp records.  In
\* a guild channel a non-empty word is searched, and the UI goroutine waits
\* in searchMember for the chunk event of its request.  The mentions list
\* that tabSuggestion fills afterwards is not modelled.
RunTabSuggestion ==
    /\ HeadIs("tabSuggestion")
    /\ queue' = Tail(queue)
    /\ IF selectedChannel = 0
       THEN /\ lastOp' = Op("nilDereference", 0, 0, 0)
            /\ UNCHANGED <<mi, net>>
       ELSE /\ UNCHANGED lastOp
            /\ IF Channel(selectedChannel).guild # 0 /\ mi.name # <<>>
               THEN \E count \in 0..SearchLimit :
                       /\ mi' = searchMember(mi, Channel(selectedChannel).guild, mi.name, count)
                       /\ net' = IF mi'.sent # <<>> THEN Request("SearchMember", "ui") ELSE net
               ELSE UNCHANGED <<mi, net>>
    /\ UNCHANGED <<messagesList, ml, cab, mlOp, fl, pinnedRows, mainFlex, http, nodes, workers, selectedChannel, ind,
                   guildsTreeInitialized, readyFolders, events, inputs>>

\* onInputCapture for the Send key while no mentions list is shown:
\* send().  Without text nothing is sent; else the UI goroutine calls
\* SendMessageComplex and waits for the answer.  When the message was sent
\* into a private channel, `go moveDMToTopOnMessage` follows; reset()
\* empties the input either way.  The input is never in edit mode here.
Send ==
    /\ inputs < MaxInputs /\ MayArrive
    /\ inputs' = inputs + 1
    /\ ~mi.disabled /\ selectedChannel # 0
    /\ IF ~mi.text
       THEN UNCHANGED <<mi, messagesList, net, workers>>
       ELSE /\ net' = Request("SendMessageComplex", "ui")
            /\ mi' = [mi EXCEPT !.text = FALSE, !.name = <<>>]
            /\ \/ UNCHANGED workers
               \/ /\ IsDMType(Channel(selectedChannel).type)
                  /\ workers' = Spawn(workers, [Task EXCEPT !.kind = "moveDMToTopOnMessage",
                                                            !.ch = selectedChannel,
                                                            !.had = HasDMNode(nodes, selectedChannel)])
    /\ UNCHANGED <<messagesList, ml, cab, mlOp, fl, pinnedRows, mainFlex, http, nodes, queue, selectedChannel, ind,
                   guildsTreeInitialized, readyFolders, lastOp, events>>

\* SearchFrequency has passed since lastSearch
SearchFrequencyPasses ==
    /\ mi.lastSearch = "recent"
    /\ mi' = [mi EXCEPT !.lastSearch = "old"]
    /\ UNCHANGED <<messagesList, ml, cab, mlOp, fl, pinnedRows, mainFlex, http, net, nodes, queue, workers, selectedChannel,
                   ind, guildsTreeInitialized, readyFolders, lastOp, events, inputs>>

\* the GuildMemberRemove handler of openState: the search cache is
\* invalidated for the user name of the member that left
InvalidateSearch(g, username) ==
    /\ events < MaxEvents /\ MayArrive
    /\ events' = events + 1
    /\ \E c \in CacheInvalidate(mi.cache, SearchKey(g, username)) : mi' = [mi EXCEPT !.cache = c]
    /\ UNCHANGED <<messagesList, ml, cab, mlOp, fl, pinnedRows, mainFlex, http, net, nodes, queue, workers, selectedChannel,
                   ind, guildsTreeInitialized, readyFolders, lastOp, inputs>>

----------------------------------------------------------------------------
(* Joining and leaving a guild, cmd/chat_view.go *)

\* what the steps below leave alone
GuildFrame == <<selectedChannel, ind, guildsTreeInitialized, readyFolders, lastOp, events>>

\* the "Join" button of showJoinServerDialog with an invite of guild g:
\* `go cv.joinServer(inviteCode)`
JoinServer(g) ==
    /\ inputs < MaxInputs /\ MayArrive
    /\ inputs' = inputs + 1
    /\ workers' = Spawn(workers, [Task EXCEPT !.kind = "joinServer", !.guild = g])
    /\ UNCHANGED <<nodes, queue, GuildFrame, sideVars>>

\* chatView.joinServer: JoinInvite fails and the goroutine returns, or it
\* answers with the guild and the goroutine queues the closure
JoinInvite ==
    \E w \in Running("joinServer") :
       /\ workers' = Finish(workers, w)
       /\ \/ UNCHANGED <<queue, net>>
          \/ /\ queue' = Append(queue, [Task EXCEPT !.kind = "createGuildNode", !.guild = w.guild])
             /\ net' = Request("JoinInvite", "worker")
       /\ UNCHANGED <<nodes, inputs, GuildFrame, ml, cab, mlOp, fl, pinnedRows, mainFlex, http, mi, messagesList>>

\* the closure of joinServer: createGuildNode(root, result.Guild)
RunJoinedGuild ==
    /\ HeadIs("createGuildNode")
    /\ queue' = Tail(queue)
    /\ nodes' = createGuildNode(nodes, Root, Head(queue).guild, ind)
    /\ UNCHANGED <<workers, inputs, GuildFrame, sideVars>>

\* chatView.leaveCurrentGuild with the current node n, and "Yes" in its
\* confirmation: `go cv.leaveGuild(guildID, node)`
LeaveCurrentGuild(n) ==
    /\ inputs < MaxInputs /\ MayArrive
    /\ inputs' = inputs + 1
    /\ n \in Shown(nodes, Root)
    /\ nodes[n].ref.t = "guild"
    /\ nodes[n].ref.id \in CachedGuilds
    /\ workers' = Spawn(workers, [Task EXCEPT !.kind = "leaveGuild",
                                              !.guild = nodes[n].ref.id, !.node = n])
    /\ UNCHANGED <<nodes, queue, GuildFrame, sideVars>>

\* chatView.leaveGuild: LeaveGuild fails and the goroutine returns, or it
\* succeeds and the goroutine queues the closure
LeaveGuild ==
    \E w \in Running("leaveGuild") :
       /\ workers' = Finish(workers, w)
       /\ \/ UNCHANGED <<queue, net>>
          \/ /\ queue' = Append(queue, [Task EXCEPT !.kind = "removeGuildNode",
                                                    !.guild = w.guild, !.node = w.node])
             /\ net' = Request("LeaveGuild", "worker")
       /\ UNCHANGED <<nodes, inputs, GuildFrame, ml, cab, mlOp, fl, pinnedRows, mainFlex, http, mi, messagesList>>

\* the closure of leaveGuild: root.RemoveChild(node)
RunLeftGuild ==
    /\ HeadIs("removeGuildNode")
    /\ queue' = Tail(queue)
    /\ nodes' = RemoveChild(nodes, Root, Head(queue).node)
    /\ UNCHANGED <<workers, inputs, GuildFrame, sideVars>>

----------------------------------------------------------------------------
(* Keys of the friends list, cmd/friends_list.go *)

\* Cabinet.Guilds(): the guilds of the cabinet in the order of its store;
\* guild 2 is among them once it is cached
CabinetGuilds == Orders(CachedGuilds) \cup Orders(Guilds)

\* friendsList.getRelationshipType(userID)
getRelationshipType(f, userID) ==
    LET found == {i \in 1..Len(f.relationships) : f.relationships[i].user = userID}
    IN  IF found = {} THEN 0
        ELSE f.relationships[CHOOSE i \in found : \A j \in found : i <= j].type

\* fl.friendItems[index], 0 when the map has no such key
friendAt(f, index) == IF index \in DOMAIN f.friendItems THEN f.friendItems[index] ELSE 0

\* the query of friendsList.updateSearch(char) before the rebuild: char 0
\* drops the last byte, another char is appended as string(char)
updateSearch(q, char) ==
    IF char = 0 THEN (IF Len(q) > 0 THEN SubSeq(q, 1, Len(q) - 1) ELSE q)
    ELSE q \o Utf8(<<char>>)

\* the request of acceptFriendRequest, denyFriendRequest or
\* cancelFriendRequest for a user
FriendCmd(name, u) == [cmd |-> name, id |-> u]

\* what the steps of the friends list leave alone
FriendsFrame ==
    <<mi, messagesList, ml, cab, pinnedRows, mainFlex, http, nodes, queue, selectedChannel, ind,
      guildsTreeInitialized, readyFolders, lastOp, events>>

\* acceptFriendRequest, denyFriendRequest, cancelFriendRequest: RequestJSON
\* on the calling goroutine, and `go fl.show()` when it succeeds
friendRequest(name, userID) ==
    /\ mlOp' = MlOp("friendsList", 0, <<FriendCmd(name, userID)>>, 0)
    /\ net' = [Request(name, "ui") EXCEPT !.ch = userID]
    /\ \/ workers' = workers
       \/ workers' = Spawn(workers, [Task EXCEPT !.kind = "friendsList.show"])
    /\ UNCHANGED fl

\* a handler of the friends list that replaces the query and rebuilds
searchStep(q) ==
    /\ \E guilds \in CabinetGuilds :
          fl' = friendsRebuildList([fl EXCEPT !.searchQuery = q], cab, guilds)
    /\ mlOp' = MlOp("friendsList", 0, <<>>, 0)
    /\ UNCHANGED <<workers, net>>

\* a handler of the friends list that returns without an effect
noStep ==
    /\ mlOp' = MlOp("friendsList", 0, <<>>, 0)
    /\ UNCHANGED <<fl, workers, net>>

\* friendsList.onSelected(index)
friendsOnSelected(index) ==
    LET userID == friendAt(fl, index)
    IN  IF index < 0 \/ index >= Len(fl.rows) THEN noStep
        ELSE IF ContainsGlyph(fl.rows[index + 1].text) THEN noStep
        ELSE IF userID = 0 THEN noStep
        ELSE IF getRelationshipType(fl, userID) = 3
        THEN friendRequest("acceptFriendRequest", userID)
        ELSE \* fl.hide() and `go initiateDM(userID)`
             /\ fl' = [fl EXCEPT !.visible = FALSE]
             /\ workers' = Spawn(workers, [Task EXCEPT !.kind = "initiateDM",
                                                      !.ch = DMChannelOf(userID),
                                                      !.user = userID])
             /\ mlOp' = MlOp("friendsList", 0, <<InitiateDMCmd(userID)>>, 0)
             /\ UNCHANGED net

\* an input of the shown friends list with the current item `index`
friendsInput(index) ==
    /\ inputs < MaxInputs /\ MayArrive
    /\ fl.visible
    /\ index \in 0..Len(fl.rows) /\ (index < Len(fl.rows) \/ index = 0)
    /\ inputs' = inputs + 1
    /\ UNCHANGED FriendsFrame

\* onInputCapture, tcell.KeyEnter: fl.onSelected(fl.GetCurrentItem())
FriendsEnter(index) == friendsInput(index) /\ friendsOnSelected(index)

\* onInputCapture, tcell.KeyEscape: clearSearch
FriendsEscape(index) ==
    /\ friendsInput(index)
    /\ IF fl.searchQuery # <<>> THEN searchStep(<<>>)
       ELSE /\ fl' = [fl EXCEPT !.visible = FALSE]
            /\ mlOp' = MlOp("friendsList", 0, <<>>, 0)
            /\ UNCHANGED <<workers, net>>

\* onInputCapture, tcell.KeyBackspace: updateSearch(0)
FriendsBackspace(index) ==
    friendsInput(index) /\ searchStep(updateSearch(fl.searchQuery, 0))

\* onInputCapture, tcell.KeyRune with the key r: char is the first byte of
\* the key's string
FriendsKeyRune(index, r) ==
    /\ friendsInput(index)
    /\ LET char == Utf8(<<r>>)[1]
           userID == friendAt(fl, index)
           relType == getRelationshipType(fl, userID)
       IN  /\ Len(updateSearch(fl.searchQuery, char)) <= MaxQuery
           /\ IF fl.searchQuery = <<>> /\ userID # 0 /\ char \in {100, 68} /\ relType = 3
              THEN friendRequest("denyFriendRequest", userID)
              ELSE IF fl.searchQuery = <<>> /\ userID # 0 /\ char \in {120, 88} /\ relType = 4
              THEN friendRequest("cancelFriendRequest", userID)
              ELSE IF fl.searchQuery = <<>> /\ char \in {97, 65}
              THEN \* showAddFriendDialog
                   noStep
              ELSE searchStep(updateSearch(fl.searchQuery, char))

----------------------------------------------------------------------------
\* newMembersList, an empty cabinet, no friends or pinned list shown; a new
\* message input and no request made
SideInit ==
    /\ ml = NewMembersList
    /\ cab = EmptyCabinet
    /\ mlOp = MlOp("init", 0, <<>>, 0)
    /\ fl = NewFriendsList
    /\ pinnedRows = <<>>
    /\ mainFlex = buildLayout(ml)
    /\ http = NewBuildNumber
    /\ mi = [NewMessageInput EXCEPT !.disabled = (selectedChannel = 0)]
    /\ messagesList = selectedChannel
    /\ net = NoRequest

\* newGuildsTree: the root node only; nothing selected
Init ==
    /\ nodes = <<NewTreeNode("")>>
    /\ queue = <<>>
    /\ workers = EmptyBag
    /\ selectedChannel = 0
    /\ ind = [c \in Channels |-> "read"]
    /\ guildsTreeInitialized = FALSE
    /\ readyFolders = <<>>
    /\ lastOp = Op("init", 0, 0, 0)
    /\ events = 0
    /\ inputs = 0
    /\ SideInit

\* the Ready event of the account: guild 1, in no folder
AccountFolders == <<Folder(0, <<1>>, "")>>

\* the rows of the tree view below the "Direct Messages" node, that node
\* included
DMRows(ns) ==
    {n \in Shown(ns, Root) :
        ns[n].ref.t = "nil" \/ (ns[n].ref.t = "chan" /\ ns[n].ref.id \in DMs)}

\* steps of the goroutines in flight
WorkerStep ==
    \/ MarkRead
    \/ FetchPrivateChannels
    \/ ComputeDMStyles
    \/ QueueDMStyles
    \/ FetchMessages
    \/ UpdateChannelStyle
    \/ UpdateDMStyleAndMove
    \/ MoveDMToTopOnMessage
    \/ FetchDM

\* The user works in the direct messages while events about them arrive.
Next ==
    \/ OnReady(AccountFolders)
    \/ \E c \in DMs : OnChannelCreate(c)
    \/ \E c \in DMs : OnMessageCreate(c)
    \/ \E n \in DMRows(nodes) : OnSelected(n)
    \/ \E c \in DMs : InitiateDM(c)
    \/ \E n \in Shown(nodes, Root) : CloseDM(n)
    \/ CloseCurrentDM
    \/ MarkRead
    \/ FetchPrivateChannels
    \/ ComputeDMStyles
    \/ QueueDMStyles
    \/ FetchMessages
    \/ UpdateChannelStyle
    \/ UpdateDMStyleAndMove
    \/ MoveDMToTopOnMessage
    \/ FetchDM
    \/ RunChannelCreate
    \/ RunCreateDMNodes
    \/ RunApplyDMStyles
    \/ RunDrawMessages
    \/ RunRedraw
    \/ RunStyleAndMove
    \/ RunMoveOnMessage
    \/ RunOpenDM

Spec == Init /\ [][Next]_vars

\* The read state changes while the user opens and closes the guild: every
\* ReadStateUpdate for the guild's text channel and for the private channels
\* that ChannelCreate events have announced.
GuildRows(ns) == {n \in Shown(ns, Root) : ns[n].ref.t = "guild"}

NextRead ==
    \/ OnReady(AccountFolders)
    \/ \E c \in DMs : OnChannelCreate(c)
    \/ \E c \in DMs \cup {TextChan} : \E v \in Indications : OnReadUpdate(c, v)
    \/ \E n \in GuildRows(nodes) : OnSelected(n)
    \/ RunChannelCreate
    \/ RunReadUpdate

SpecRead == Init /\ [][NextRead]_vars

\* Ready events with every list of at most MaxFolders folder entries
FolderEntries ==
    {Folder(id, gids, name) :
        id \in {0, 7},
        gids \in {<<>>} \cup {<<g>> : g \in Guilds} \cup {<<g, h>> : g, h \in Guilds},
        name \in {"", "friends"}}

RECURSIVE SeqsUpTo(_, _)
SeqsUpTo(S, k) ==
    IF k = 0 THEN {<<>>}
    ELSE SeqsUpTo(S, k - 1) \cup {Append(q, x) : q \in {r \in SeqsUpTo(S, k - 1) : Len(r) = k - 1}, x \in S}

FirstReady == ~guildsTreeInitialized /\ \E folders \in SeqsUpTo(FolderEntries, MaxFolders) : OnReady(folders)
Reconnect == guildsTreeInitialized /\ OnReady(AccountFolders)

NextReady ==
    \/ FirstReady
    \/ Reconnect

SpecReady == Init /\ [][NextReady]_vars

\* DM promotion on its own: the "Direct Messages" node with any children, in
\* any order, among at most MaxChildren channel nodes
InitPromote ==
    /\ \E k \in 0..MaxChildren : \E S \in SUBSET (3..(k + 2)) : \E order \in Orders(S) :
         nodes = <<[NewTreeNode("") EXCEPT !.children = <<2>>],
                   [NewTreeNode("Direct Messages") EXCEPT !.children = order]>>
                 \o [i \in 1..k |-> [NewTreeNode("channel") EXCEPT !.ref = ChanRef(i)]]
    /\ queue = <<>>
    /\ workers = EmptyBag
    /\ selectedChannel = 0
    /\ ind = [c \in Channels |-> "read"]
    /\ guildsTreeInitialized = TRUE
    /\ readyFolders = <<>>
    /\ lastOp = Op("init", 0, 0, 0)
    /\ events = 0
    /\ inputs = 0
    /\ SideInit

\* moveDMToTop(dmNode, channelID) applied to any node
Promote(n) ==
    /\ UNCHANGED sideVars
    /\ nodes' = moveDMToTop(nodes, n)
    /\ lastOp' = Op("moveDMToTop", nodes[n].ref.id, n, DMIndex(nodes, n))
    /\ UNCHANGED <<queue, workers, selectedChannel, ind, guildsTreeInitialized, readyFolders,
                   events, inputs>>

NextPromote == \E n \in 2..Len(nodes) : Promote(n)

SpecPromote == InitPromote /\ [][NextPromote]_vars

\* Messages in the private channels while the user closes some of them.
\* The session starts with the tree a Ready event without guilds and the
\* opening of "Direct Messages" have built: one node per private channel and
\* a second node for channel 1, any of them under "Direct Messages" in any
\* order, the others closed; any private channel, or none, is selected.
InitMessage ==
    /\ \E S \in SUBSET (3..(NumDMs + 3)) : \E order \in Orders(S) :
         nodes = <<[NewTreeNode("") EXCEPT !.children = <<2>>],
                   [NewTreeNode("Direct Messages") EXCEPT !.children = order]>>
                 \o [i \in 1..(NumDMs + 1) |->
                        [NewTreeNode("channel") EXCEPT
                            !.ref = ChanRef(IF i <= NumDMs THEN i ELSE 1),
                            !.style = getChannelNodeStyle([c \in Channels |-> "read"], 1)]]
    /\ queue = <<>>
    /\ workers = EmptyBag
    /\ selectedChannel \in DMs \cup {0}
    /\ ind = [c \in Channels |-> "read"]
    /\ guildsTreeInitialized = TRUE
    /\ readyFolders = <<>>
    /\ lastOp = Op("init", 0, 0, 0)
    /\ events = 0
    /\ inputs = 0
    /\ SideInit

NextMessage ==
    \/ \E c \in DMs : OnMessageCreate(c)
    \/ \E n \in Shown(nodes, Root) : CloseDM(n)
    \/ MarkRead
    \/ UpdateDMStyleAndMove
    \/ MoveDMToTopOnMessage
    \/ RunStyleAndMove
    \/ RunMoveOnMessage

SpecMessage == InitMessage /\ [][NextMessage]_vars

\* The members panel while member and presence events arrive.  The session
\* starts after the first Ready event, with no guild selected yet or with
\* guild 1 selected and its channels loaded, its member chunk arrived or
\* not.
ReadyTree ==
    buildFolders(AddChild(<<NewTreeNode(""), NewTreeNode("Direct Messages")>>, Root, 2),
                 AccountFolders, [c \in Channels |-> "read"])

LoadedTree ==
    SetExpanded(createChannelNodes(ReadyTree, 3, CabinetChannels(1), [c \in Channels |-> "read"]),
                3, TRUE)

InitMembers ==
    /\ \/ /\ nodes = ReadyTree
          /\ ml = NewMembersList
          /\ cab = EmptyCabinet
       \/ /\ nodes = LoadedTree
          /\ ml = [NewMembersList EXCEPT !.currentGuildID = 1]
          /\ cab \in {EmptyCabinet, MemberSetAll(EmptyCabinet, 1, Users)}
    /\ queue = <<>>
    /\ workers = EmptyBag
    /\ selectedChannel = 0
    /\ ind = [c \in Channels |-> "read"]
    /\ guildsTreeInitialized = TRUE
    /\ readyFolders = AccountFolders
    /\ lastOp = Op("init", 0, 0, 0)
    /\ events = 0
    /\ inputs = 0
    /\ mlOp = MlOp("init", 0, <<>>, 0)
    /\ fl = NewFriendsList
    /\ pinnedRows = <<>>
    /\ mainFlex = buildLayout(ml)
    /\ http = NewBuildNumber
    /\ mi = [NewMessageInput EXCEPT !.disabled = (selectedChannel = 0)]
    /\ messagesList = selectedChannel
    /\ net = NoRequest

\* the rows of the guilds and of their channels
MemberRows(ns) ==
    {n \in Shown(ns, Root) :
        ns[n].ref.t = "guild" \/ (ns[n].ref.t = "chan" /\ ns[n].ref.id \in GuildChans)}

\* the status of the presence updates that arrive
UpdatedStatuses == {"idle"}

\* Guild 1 is the guild of the tree; of the other guild, members join.
NextMembers ==
    \/ \E n \in MemberRows(nodes) : OnSelected(n)
    \/ ToggleMembersList
    \/ OnGuildMembersChunk(1, Users)
    \/ \E g \in Guilds : \E u \in Users : OnGuildMemberAdd(g, u)
    \/ \E u \in Users : OnGuildMemberUpdate(1, u)
    \/ \E u \in Users : OnGuildMemberRemove(1, u)
    \/ \E u \in Users : \E s \in UpdatedStatuses : OnPresenceUpdate(1, u, s)
    \/ RunRebuildList
    \/ RunUpdateMemberPresence
    \/ FetchMessages
    \/ UpdateChannelStyle
    \/ RunDrawMessages
    \/ RunRedraw

SpecMembers == InitMembers /\ [][NextMembers]_vars

\* The same session with one event of each kind, all about user 1 of
\* guild 1: what a handler does with a hidden panel does not depend on the
\* user the event is about.
NextHidden ==
    \/ \E n \in MemberRows(nodes) : OnSelected(n)
    \/ ToggleMembersList
    \/ OnGuildMembersChunk(1, Users)
    \/ OnGuildMemberAdd(1, 1)
    \/ OnGuildMemberUpdate(1, 1)
    \/ OnGuildMemberRemove(1, 1)
    \/ OnPresenceUpdate(1, 1, "idle")
    \/ RunRebuildList
    \/ RunUpdateMemberPresence
    \/ FetchMessages
    \/ UpdateChannelStyle
    \/ RunDrawMessages
    \/ RunRedraw

SpecHidden == InitMembers /\ [][NextHidden]_vars

\* The members list built for guild 1 from the caches a session can hold,
\* and the key InitiateDM on its rows.
BuildUsers == 1..MaxMembers
BuildStatuses == Statuses \cup {"none"}

\* the roles of guild 1: "M" and "K" colored at position 2, "Z" colored at
\* position 0, "B" without color at position 9; role 5 is not in the cache
BuildRoles ==
    <<Role(1, <<77>>, 255, 2), Role(2, <<75>>, 65280, 2), Role(3, <<90>>, 255, 0),
      Role(4, <<66>>, 0, 9), NoRole>>

\* the cabinet with the members ms of guild 1 and their presences ps
BuildCabinet(ms, ps) ==
    [members |-> [g \in Guilds |->
                    IF g = 1 THEN [ok |-> TRUE, set |-> {ms[u] : u \in DOMAIN ms}]
                    ELSE [ok |-> FALSE, set |-> {}]],
     presence |-> [g \in Guilds |->
                    [u \in BuildUsers |-> IF g = 1 /\ u \in DOMAIN ps THEN ps[u] ELSE "none"]],
     roles |-> BuildRoles]

\* user 1 with the display name "A", user 2 with the nickname "a" over the
\* display name "C", every further user with the username "B" and no
\* display name
NamedMember(u) ==
    CASE u = 1 -> Member(u, <<>>, <<65>>, <<117, 49>>, <<>>)
      [] u = 2 -> Member(u, <<97>>, <<67>>, <<117, 50>>, <<>>)
      [] OTHER -> Member(u, <<>>, <<>>, <<66>>, <<>>)

\* at most `max` members without roles, in every combination of statuses
NamedCabinets(max) ==
    UNION {{BuildCabinet([u \in 1..n |-> NamedMember(u)], ps) : ps \in [1..n -> BuildStatuses]} :
             n \in 0..max}

\* the role lists of the members
RoleLists == {<<>>, <<1>>, <<3>>, <<4, 5>>, <<1, 2>>, <<2, 1>>, <<3, 1>>}

\* at most `max` members "A", "B", ... in every combination of role lists,
\* online or offline
RoleCabinets(max) ==
    UNION {{BuildCabinet([u \in 1..n |-> Member(u, <<>>, <<64 + u>>, <<117, 48 + u>>, rs[u])], ps) :
               rs \in [1..n -> RoleLists], ps \in [1..n -> {"online", "offline"}]} :
             n \in 1..max}

\* a member whose nickname holds the character U+2500 next to a member "A"
GlyphMember(u) == Member(u, <<Glyph, 65>>, <<65>>, <<117, 48 + u>>, <<>>)
GlyphCabinets ==
    {BuildCabinet(<<GlyphMember(1), Member(2, <<>>, <<65>>, <<117, 50>>, r)>>, <<p, "online">>) :
        r \in {<<>>, <<1>>}, p \in {"online", "offline"}}

BuildCabinets(max) ==
    {[EmptyCabinet EXCEPT !.roles = BuildRoles]} \cup NamedCabinets(max) \cup RoleCabinets(max)
        \cup GlyphCabinets

InitBuild ==
    /\ nodes = LoadedTree
    /\ ml = [NewMembersList EXCEPT !.currentGuildID = 1]
    /\ cab \in BuildCabinets(MaxMembers)
    /\ queue = <<>>
    /\ workers = EmptyBag
    /\ selectedChannel = 0
    /\ ind = [c \in Channels |-> "read"]
    /\ guildsTreeInitialized = TRUE
    /\ readyFolders = AccountFolders
    /\ lastOp = Op("init", 0, 0, 0)
    /\ events = 0
    /\ inputs = 0
    /\ mlOp = MlOp("init", 0, <<>>, 0)
    /\ fl = NewFriendsList
    /\ pinnedRows = <<>>
    /\ mainFlex = buildLayout(ml)
    /\ http = NewBuildNumber
    /\ mi = [NewMessageInput EXCEPT !.disabled = (selectedChannel = 0)]
    /\ messagesList = selectedChannel
    /\ net = NoRequest

\* List.GetCurrentItem of the members list
CurrentItems(m) == {i \in 0..Len(m.rows) : i < Len(m.rows) \/ i = 0}

NextBuild ==
    \/ ToggleMembersList
    \/ ml.visible /\ \E index \in CurrentItems(ml) : MembersOnSelected(index)
    \/ FetchDM
    \/ RunOpenDM

SpecBuild == InitBuild /\ [][NextBuild]_vars

\* The three side lists that are filled from a fetch: the members panel of
\* guild 1 with its members cached or not, the friends list, and the
\* pinned messages list with a channel selected or not.
InitLists ==
    /\ nodes = LoadedTree
    /\ ml = [NewMembersList EXCEPT !.currentGuildID = 1]
    /\ cab \in {EmptyCabinet, MemberSetAll(EmptyCabinet, 1, Users)}
    /\ selectedChannel \in {0, TextChan}
    /\ queue = <<>>
    /\ workers = EmptyBag
    /\ ind = [c \in Channels |-> "read"]
    /\ guildsTreeInitialized = TRUE
    /\ readyFolders = AccountFolders
    /\ lastOp = Op("init", 0, 0, 0)
    /\ events = 0
    /\ inputs = 0
    /\ mlOp = MlOp("init", 0, <<>>, 0)
    /\ fl = NewFriendsList
    /\ pinnedRows = <<>>
    /\ mainFlex = buildLayout(ml)
    /\ http = NewBuildNumber
    /\ mi = [NewMessageInput EXCEPT !.disabled = (selectedChannel = 0)]
    /\ messagesList = selectedChannel
    /\ net = NoRequest

NextLists ==
    \/ ToggleMembersList
    \/ ShowFriendsList
    \/ FriendsShow
    \/ FetchRelationships
    \/ RunFriendsLoading
    \/ RunFriendsFailed
    \/ RunFriendsRebuild
    \/ ShowPinnedMessages
    \/ FetchPinned
    \/ RunPinnedFailed
    \/ RunPinnedEmpty
    \/ RunPinnedFill

SpecLists == InitLists /\ [][NextLists]_vars

----------------------------------------------------------------------------
(* The message input: member search while a mention is typed *)

\* A channel of guild 1 or a private channel is selected and the input is
\* empty.
InitInput ==
    /\ nodes = LoadedTree
    /\ ml = [NewMembersList EXCEPT !.currentGuildID = 1]
    /\ cab = MemberSetAll(EmptyCabinet, 1, Users)
    /\ selectedChannel \in {1, TextChan}
    /\ queue = <<>>
    /\ workers = EmptyBag
    /\ ind = [c \in Channels |-> "read"]
    /\ guildsTreeInitialized = TRUE
    /\ readyFolders = AccountFolders
    /\ lastOp = Op("init", 0, 0, 0)
    /\ events = 0
    /\ inputs = 0
    /\ mlOp = MlOp("init", 0, <<>>, 0)
    /\ fl = NewFriendsList
    /\ pinnedRows = <<>>
    /\ mainFlex = buildLayout(ml)
    /\ http = NewBuildNumber
    /\ mi = [NewMessageInput EXCEPT !.disabled = (selectedChannel = 0)]
    /\ messagesList = selectedChannel
    /\ net = NoRequest

NextInput ==
    \/ TypeLetter
    \/ EraseLetter
    \/ QueueTabSuggestion
    \/ RunTabSuggestion
    \/ SearchFrequencyPasses
    \/ \E r \in Letters : InvalidateSearch(1, <<r>>)
    \/ Send
    \/ MoveDMToTopOnMessage

SpecInput == InitInput /\ [][NextInput]_vars

----------------------------------------------------------------------------
(* Message fetches of channel selections *)

\* The "Direct Messages" node is expanded and shows the private channels;
\* the first of them may be unread.  The user selects channels.
InitFetch ==
    /\ nodes = <<[NewTreeNode("") EXCEPT !.children = <<2>>],
                 [NewTreeNode("Direct Messages") EXCEPT !.children = [i \in 1..NumDMs |-> i + 2],
                                                        !.expanded = TRUE]>>
               \o [i \in 1..NumDMs |-> [NewTreeNode("channel") EXCEPT !.ref = ChanRef(i)]]
    /\ queue = <<>>
    /\ workers = EmptyBag
    /\ selectedChannel = 0
    /\ ind \in {[c \in Channels |-> "read"], [c \in Channels |-> IF c = 1 THEN "unread" ELSE "read"]}
    /\ guildsTreeInitialized = TRUE
    /\ readyFolders = <<>>
    /\ lastOp = Op("init", 0, 0, 0)
    /\ events = 0
    /\ inputs = 0
    /\ SideInit

\* the closures that the UI goroutine runs
RunFetchClosure ==
    \/ RunDrawMessages
    \/ RunRedraw
    \/ RunReadUpdate

NextFetch ==
    \/ \E n \in 3..(NumDMs + 2) : OnSelected(n)
    \/ MessagesReturn
    \/ QueueDrawMessages
    \/ UpdateChannelStyle
    \/ RunFetchClosure

SpecFetch == InitFetch /\ [][NextFetch]_vars

\* The same with every channel read at the start and no empty page.  While a closure waits
\* or a goroutine is under way, one of them runs: the UI goroutine runs the
\* closure at the head of the queue, a request is answered or fails, a
\* goroutine goes on.  No step here starts another, so each of them gets its
\* turn.
FetchStep ==
    \/ MessagesReturnOf({<<2, 1>>})
    \/ QueueDrawMessages
    \/ UpdateChannelStyle
    \/ RunDrawMessages
    \/ RunRedraw

NextFetchLive ==
    \/ \E n \in 3..(NumDMs + 2) : OnSelected(n)
    \/ FetchStep

InitFetchLive == InitFetch /\ ind[1] = "read"

SpecFetchLive ==
    /\ InitFetchLive
    /\ [][NextFetchLive]_vars
    /\ WF_vars(FetchStep)

----------------------------------------------------------------------------
(* Guilds joined and left *)

\* The session starts after the first Ready event, with guild 1 in no
\* folder or in a folder.  The user joins guilds, leaves guild 1 and
\* selects guild nodes while the gateway reconnects.
GuildFolderLists == {AccountFolders, <<Folder(7, <<1, 2>>, "friends")>>}

InitGuilds ==
    /\ \E folders \in GuildFolderLists :
          /\ nodes = buildFolders(
                        AddChild(<<NewTreeNode(""), NewTreeNode("Direct Messages")>>, Root, 2),
                        folders, [c \in Channels |-> "read"])
          /\ readyFolders = folders
    /\ queue = <<>>
    /\ workers = EmptyBag
    /\ selectedChannel = 0
    /\ ind = [c \in Channels |-> "read"]
    /\ guildsTreeInitialized = TRUE
    /\ lastOp = Op("init", 0, 0, 0)
    /\ events = 0
    /\ inputs = 0
    /\ SideInit

NextGuilds ==
    \/ \E g \in Guilds : JoinServer(g)
    \/ JoinInvite
    \/ RunJoinedGuild
    \/ \E n \in 1..Len(nodes) : LeaveCurrentGuild(n)
    \/ LeaveGuild
    \/ RunLeftGuild
    \/ Reconnect
    \/ \E n \in GuildRows(nodes) : OnSelected(n)

SpecGuilds == InitGuilds /\ [][NextGuilds]_vars

----------------------------------------------------------------------------
(* The friends list and its keys *)

\* the relationships of the account: two friends, an incoming and an
\* outgoing request and a blocked user, all with a b in their names; two
\* friends with a letter outside ASCII and with the glyph of the headers in
\* their names; requests only; none
Befriended ==
    {<<Relationship(1, 1, <<66, 97>>), Relationship(NumUsers, 1, <<97, 98>>),
       Relationship(11, 3, <<98>>), Relationship(12, 4, <<98, 99>>),
       Relationship(13, 2, <<98>>)>>,
     <<Relationship(NumUsers, 1, <<227, 98>>), Relationship(1, 1, <<Glyph, 98>>)>>,
     <<Relationship(11, 3, <<98>>), Relationship(12, 4, <<100>>)>>,
     <<>>}

\* the presences of the cabinet: none; user 1 idle in guild 1; user 1
\* offline in guild 1 and online in guild 2, the last user online in guild 2
FriendCabinets ==
    {EmptyCabinet,
     PresenceSet(EmptyCabinet, 1, 1, "idle"),
     PresenceSet(PresenceSet(PresenceSet(EmptyCabinet, 1, 1, "offline"), 2, 1, "online"),
                 2, NumUsers, "online")}

\* the keys typed into the list: b, B, d, x, a and e with an acute accent
FriendKeys == {98, 66, 100, 120, 97, 233}

\* the session around the friends list: the tree after Ready, nothing
\* selected, no goroutine under way
FriendsSession ==
    /\ nodes = ReadyTree
    /\ ml = NewMembersList
    /\ workers = EmptyBag
    /\ selectedChannel = 0
    /\ ind = [c \in Channels |-> "read"]
    /\ guildsTreeInitialized = TRUE
    /\ readyFolders = AccountFolders
    /\ lastOp = Op("init", 0, 0, 0)
    /\ events = 0
    /\ inputs = 0
    /\ mlOp = MlOp("init", 0, <<>>, 0)
    /\ pinnedRows = <<>>
    /\ mainFlex = buildLayout(ml)
    /\ http = NewBuildNumber
    /\ mi = NewMessageInput
    /\ messagesList = 0
    /\ net = NoRequest

\* the shown list with the relationships rels, built without a filter
BuiltFriendsList(rels, guilds) ==
    friendsRebuildList([NewFriendsList EXCEPT !.visible = TRUE, !.relationships = rels],
                       cab, guilds)

\* The friends list is shown and built, with no filter.  The user types,
\* erases, selects rows and leaves; an accepted, denied or cancelled request
\* loads the list again.
InitFriends ==
    /\ cab \in FriendCabinets
    /\ \E rels \in Befriended : \E guilds \in CabinetGuilds : fl = BuiltFriendsList(rels, guilds)
    /\ queue = <<>>
    /\ FriendsSession

NextFriends ==
    \/ \E index \in 0..MaxChildren : FriendsEnter(index)
    \/ \E index \in 0..MaxChildren : FriendsEscape(index)
    \/ \E index \in 0..MaxChildren : FriendsBackspace(index)
    \/ \E index \in 0..MaxChildren : \E r \in FriendKeys : FriendsKeyRune(index, r)
    \/ FriendsShow
    \/ FetchRelationships
    \/ RunFriendsLoading
    \/ RunFriendsFailed
    \/ RunFriendsRebuild

SpecFriends == InitFriends /\ [][NextFriends]_vars

\* The filter on its own.  The list is built, or its relationships are
\* fetched and the closure that builds it waits.  The user types and erases
\* with the cursor on the first row, which is no row of a user.
SearchKeys == {98, 66, 97, 233}

InitSearch ==
    /\ cab \in FriendCabinets
    /\ \E rels \in Befriended :
          \/ /\ \E guilds \in CabinetGuilds : fl = BuiltFriendsList(rels, guilds)
             /\ queue = <<>>
          \/ /\ fl = [NewFriendsList EXCEPT !.visible = TRUE, !.relationships = rels,
                                            !.rows = <<Row(LoadingFriendsText, 0)>>]
             /\ queue = <<[Task EXCEPT !.kind = "friendsRebuild"]>>
    /\ FriendsSession

NextSearch ==
    \/ \E r \in SearchKeys : FriendsKeyRune(0, r)
    \/ FriendsBackspace(0)
    \/ FriendsEscape(0)
    \/ RunFriendsRebuild

SpecSearch == InitSearch /\ [][NextSearch]_vars

----------------------------------------------------------------------------
(* Single writer *)

\* a step of a gateway event handler or of a worker goroutine: a step that
\* is neither an input handler nor a queued closure of the UI goroutine
OffUIStep ==
    \/ OnReady(AccountFolders)
    \/ \E c \in Channels : OnChannelCreate(c) \/ OnMessageCreate(c)
    \/ \E c \in Channels : \E v \in Indications : OnReadUpdate(c, v)
    \/ WorkerStep

\* C1: every mutation of the tree runs in the UI goroutine, as an input
\* handler or as a closure of the update queue: no step of a gateway event
\* handler (onReady, onMessageCreate, ...) and no step of a worker goroutine
\* (updateChannelStyle, the fetch goroutines) changes a node of the tree.
C1_OnlyUIGoroutineMutates == [][OffUIStep => nodes' = nodes]_vars

----------------------------------------------------------------------------
(* The children of "Direct Messages" *)

\* the channel ids of the children of the "Direct Messages" node, in order
DMChannelIDs(ns) == [i \in 1..Len(DMChildren(ns)) |-> ns[DMChildren(ns)[i]].ref.id]

\* C2: in every reachable state no two children of the "Direct Messages"
\* node carry the same channel id.
C2_NoDuplicateDM ==
    \A i, j \in 1..Len(DMChannelIDs(nodes)) :
        DMChannelIDs(nodes)[i] = DMChannelIDs(nodes)[j] => i = j

----------------------------------------------------------------------------
(* A message in a private channel *)

\* the closure of updateDMStyleAndMove(channelID, true) at the head of the
\* queue runs, for an event that found a node of the channel under "Direct
\* Messages" when it arrived
ForcedUpdateRuns == RunStyleAndMove /\ Head(queue).force /\ Head(queue).had

\* the node is the first child of "Direct Messages" and has the forced
\* unread style
FirstAndBold(ns, n, c) ==
    /\ DMChildren(ns) # <<>>
    /\ DMChildren(ns)[1] = n
    /\ ns[n].ref = ChanRef(c)
    /\ ns[n].style = unreadStyle("unread")
    /\ ns[n].forced

\* C3 as the specification states it: a MessageCreate in a private channel D
\* that is not selected and has a node under "Direct Messages" when the event
\* arrives: once the update is applied, D's node has the forced unread
\* (bold) style and is the first child of "Direct Messages".
C3_AsStated ==
    [][ForcedUpdateRuns => FirstAndBold(nodes', Head(queue).node, Head(queue).ch)]_vars

\* C3, amended: under the same conditions, once the update is applied the
\* node the lookup found for D has the forced unread style, and it is the
\* first child of "Direct Messages" if it still was a child when the update
\* ran; a node closed in between (closeDM) stays out of the tree.
C3_PromotedIfStillChild ==
    [][ForcedUpdateRuns =>
          LET n == Head(queue).node IN
          /\ nodes'[n].style = unreadStyle("unread") /\ nodes'[n].forced
          /\ DMIndex(nodes, n) > 0 => FirstAndBold(nodes', n, Head(queue).ch)
          /\ DMIndex(nodes, n) = 0 => DMChildren(nodes') = DMChildren(nodes)]_vars

\* a forced update has promoted a node from a later position
C3_Witness ==
    /\ lastOp.op = "styleAndMove"
    /\ lastOp.idx > 1
    /\ FirstAndBold(nodes, lastOp.node, lastOp.ch)

\* the styles and texts of all nodes are those of the state before
StylesUnchanged ==
    /\ Len(nodes') = Len(nodes)
    /\ \A n \in 1..Len(nodes) :
         /\ nodes'[n].style = nodes[n].style
         /\ nodes'[n].forced = nodes[n].forced
         /\ nodes'[n].text = nodes[n].text

----------------------------------------------------------------------------
(* DM promotion *)

\* C4: promotion is a stable move-to-front: the promoted child comes first
\* and the other children keep their relative order, as in
\* [A,B,C,D] -> promote(C) -> [C,A,B,D].
C4_StableMoveToFront ==
    [][\A n \in 2..Len(nodes) :
         (Promote(n) /\ DMIndex(nodes, n) > 0)
            => DMChildren(nodes') = <<n>> \o RemoveAt(DMChildren(nodes), DMIndex(nodes, n))]_vars

\* the third of four children has been promoted
C4_Witness ==
    /\ lastOp.op = "moveDMToTop"
    /\ lastOp.idx = 3
    /\ Len(DMChildren(nodes)) = 4
    /\ DMChildren(nodes)[1] = lastOp.node

\* C5: promoting the child that is already first leaves the order of the
\* children (and the whole tree) unchanged.
C5_PromoteFirstIdempotent ==
    [][\A n \in 2..Len(nodes) : (Promote(n) /\ DMIndex(nodes, n) = 1) => nodes' = nodes]_vars

\* the first of several children has been promoted
C5_Witness ==
    /\ lastOp.op = "moveDMToTop"
    /\ lastOp.idx = 1
    /\ Len(DMChildren(nodes)) > 1
    /\ DMChildren(nodes)[1] = lastOp.node

----------------------------------------------------------------------------
(* Read state *)

\* every node keeps its reference, text, children and expansion
StructureUnchanged ==
    /\ Len(nodes') = Len(nodes)
    /\ \A n \in 1..Len(nodes) :
         /\ nodes'[n].ref = nodes[n].ref
         /\ nodes'[n].text = nodes[n].text
         /\ nodes'[n].children = nodes[n].children
         /\ nodes'[n].expanded = nodes[n].expanded

Quiescent == queue = <<>> /\ workers = EmptyBag

\* C8: whenever the update queue is empty and no goroutine is in flight,
\* every channel node of the tree has the style the pure unread-style
\* function gives for the current read state, except the nodes of private
\* channels that carry the forced unread style.
C8_QuiescentStylesCurrent ==
    Quiescent =>
        \A n \in InTree(nodes) :
            (nodes[n].ref.t = "chan" /\ ~nodes[n].forced)
                => nodes[n].style = getChannelNodeStyle(ind, nodes[n].ref.id)

----------------------------------------------------------------------------
(* Lookup by identity *)

\* the Walk from the root that looks for the node of channel c
Lookup(ns, c) == FindByRef(ns, Root, ChanRef(c))

\* C9: the lookup by identity returns the node of a channel that has been
\* inserted and not removed, and returns nothing once the channel's node has
\* been removed: after a closure has inserted the nodes of its channels the
\* lookup finds a node of each, and after closeDM or closeCurrentDM has
\* removed the node of a channel the lookup of that channel finds nothing.
C9_LookupFollowsInsertAndRemove ==
    [][/\ RunCreateDMNodes =>
            \A i \in 1..Len(Head(queue).chans) :
                /\ Lookup(nodes', Head(queue).chans[i]) # 0
                /\ nodes'[Lookup(nodes', Head(queue).chans[i])].ref = ChanRef(Head(queue).chans[i])
       /\ (RunChannelCreate /\ nodes' # nodes) => Lookup(nodes', Head(queue).ch) # 0
       /\ \A n \in 1..Len(nodes) :
            (CloseDM(n) /\ nodes' # nodes) => Lookup(nodes', nodes[n].ref.id) = 0
       /\ (CloseCurrentDM /\ nodes' # nodes) => Lookup(nodes', selectedChannel) = 0]_vars

----------------------------------------------------------------------------
(* The tree after Ready *)

\* a node as the claim describes it: its reference and those of its children
NodeShape(ns, n) ==
    [ref |-> ns[n].ref,
     kids |-> [i \in 1..Len(ns[n].children) |-> ns[ns[n].children[i]].ref]]

\* the guilds of a list of ids that the cache knows, in order
RECURSIVE CachedRefs(_)
CachedRefs(gids) ==
    IF gids = <<>> THEN <<>>
    ELSE (IF Head(gids) \in CachedGuilds THEN <<GuildRef(Head(gids))>> ELSE <<>>)
         \o CachedRefs(Tail(gids))

\* the children of the root that the folder entries call for
RECURSIVE ExpectedEntries(_)
ExpectedEntries(folders) ==
    IF folders = <<>> THEN <<>>
    ELSE LET f == Head(folders)
             entry == IF f.id = 0 /\ Len(f.guildIDs) = 1
                      THEN [i \in 1..Len(CachedRefs(f.guildIDs)) |->
                               [ref |-> CachedRefs(f.guildIDs)[i], kids |-> <<>>]]
                      ELSE <<[ref |-> NilRef, kids |-> CachedRefs(f.guildIDs)]>>
         IN  entry \o ExpectedEntries(Tail(folders))

\* C10: after the first Ready event the children of the root are the
\* "Direct Messages" node followed by one node per folder entry, in the
\* order of the entries: the guild's node for an ungrouped entry with one
\* guild, a folder node with the guilds' nodes otherwise, guilds that are
\* missing from the cache skipped.
C10_TreeAfterReady ==
    guildsTreeInitialized =>
        /\ nodes[Root].children # <<>>
        /\ nodes[nodes[Root].children[1]].text = "Direct Messages"
        /\ \A i \in 2..Len(nodes[Root].children) :
             nodes[nodes[Root].children[i]].text # "Direct Messages"
        /\ [i \in 1..Len(nodes[Root].children) |-> NodeShape(nodes, nodes[Root].children[i])]
             = <<[ref |-> NilRef, kids |-> <<>>]>> \o ExpectedEntries(readyFolders)

\* Ready with one ungrouped guild has built root -> [Direct Messages, guild 1]
C10_Witness ==
    /\ guildsTreeInitialized
    /\ readyFolders = <<Folder(0, <<1>>, "")>>
    /\ Len(nodes[Root].children) = 2
    /\ nodes[nodes[Root].children[2]].ref = GuildRef(1)

----------------------------------------------------------------------------
(* Reconnection *)

\* the children of the root whose text is "Direct Messages"
DMGroups(ns) ==
    {i \in 1..Len(ns[Root].children) : ns[ns[Root].children[i]].text = "Direct Messages"}

\* C11: only the first Ready event builds the tree.  A Ready event that
\* arrives once the tree is built (a reconnection), in any interleaving with
\* the other events and inputs, leaves every node as it is; after the first
\* Ready the root always has exactly one "Direct Messages" child, and a
\* node that is in the tree stays in the tree.
C11_ReadyBuildsOnce ==
    /\ [](guildsTreeInitialized => Cardinality(DMGroups(nodes)) = 1)
    /\ [][(guildsTreeInitialized /\ OnReady(AccountFolders)) => nodes' = nodes]_vars
    /\ [][guildsTreeInitialized => InTree(nodes) \subseteq InTree(nodes')]_vars

\* a Ready event has arrived after a ChannelCreate event had added the node
\* of a private channel, and the node is still there
C11_Witness ==
    /\ lastOp.op = "onReady"
    /\ events > 0
    /\ \E c \in DMs : HasDMNode(nodes, c)

----------------------------------------------------------------------------
(* The members panel *)

Range(s) == {s[i] : i \in 1..Len(s)}

\* C12: every selection of a guild node, whether or not the node already
\* has channel children, starts a subscription for the guild and a full
\* member and presence request for it.
C12_SelectionSubscribes ==
    [][\A n \in 1..Len(nodes) :
         (OnSelected(n) /\ nodes[n].ref.t = "guild")
            => /\ Subscribe(nodes[n].ref.id) \in Range(mlOp'.sent)
               /\ RequestGuildMembers(nodes[n].ref.id) \in Range(mlOp'.sent)]_vars

\* a member or presence event of guild g arrives
MemberEventFor(g) ==
    \/ g # 0 /\ \E S \in SUBSET Users : OnGuildMembersChunk(g, S)
    \/ g # 0 /\ \E u \in Users :
          OnGuildMemberAdd(g, u) \/ OnGuildMemberUpdate(g, u) \/ OnGuildMemberRemove(g, u)
    \/ \E u \in Users : \E s \in Statuses : OnPresenceUpdate(g, u, s)

MemberEventStep == \E g \in Guilds \cup {0} : MemberEventFor(g)

\* a queued update of the members list runs
MemberClosureStep == RunRebuildList \/ RunUpdateMemberPresence

\* the tree selection of node n records guild g in the members list and
\* does nothing else to it
RecordsOnly(n) ==
    \/ ml' = ml
    \/ /\ nodes[n].ref.t = "guild"
       /\ ml' = [ml EXCEPT !.currentGuildID = nodes[n].ref.id]
    \/ /\ nodes[n].ref.t = "chan"
       /\ ml' = [ml EXCEPT !.currentGuildID = Channel(nodes[n].ref.id).guild]

\* C13: while the members panel is hidden no step changes the rows of the
\* members list or calls Cabinet.Members: a guild or channel selection only
\* records the guild id, a member or presence event queues nothing, and a
\* queued update that runs after the panel was hidden leaves the members
\* list as it is.
C13_HiddenPanelIdle ==
    [][(~ml.visible /\ ~ml'.visible) =>
          /\ ml'.rows = ml.rows /\ ml'.memberItems = ml.memberItems
          /\ \A n \in 1..Len(nodes) : OnSelected(n) => (RecordsOnly(n) /\ mlOp'.reads = 0)
          /\ MemberEventStep => (queue' = queue /\ ml' = ml /\ mlOp'.reads = 0)
          /\ MemberClosureStep => (ml' = ml /\ mlOp'.reads = 0)]_vars

\* a rebuild that was queued while the panel was visible has run after the
\* panel was hidden, and the rows of the earlier build are still there
C13_Witness ==
    /\ mlOp.op = "rebuildList"
    /\ mlOp.reads = 0
    /\ ~ml.visible
    /\ ml.rows # <<>>

----------------------------------------------------------------------------
(* The projection of the member cache, as the specification defines it *)

\* the highest colored role of a member: among the member's cached roles
\* with a color, the one of maximal position, the first of the member's
\* list on equal positions; NoRole when there is none
HighestColoredRole(c, m) ==
    LET colored == {i \in 1..Len(m.roleIDs) :
                      c.roles[m.roleIDs[i]].cached /\ c.roles[m.roleIDs[i]].color # 0}
        pos(i) == c.roles[m.roleIDs[i]].position
    IN  IF colored = {} THEN NoRole
        ELSE c.roles[m.roleIDs[CHOOSE i \in colored :
                        \A j \in colored : pos(j) < pos(i) \/ (pos(j) = pos(i) /\ i <= j)]]

BucketName(c, m) ==
    IF HighestColoredRole(c, m) = NoRole THEN NoRoleName ELSE HighestColoredRole(c, m).name

\* the rank of a status: online 0, idle 1, do-not-disturb 2, everything
\* else (offline, invisible, no presence) 3
Rank(status) ==
    CASE status = "online" -> 0 [] status = "idle" -> 1 [] status = "dnd" -> 2 [] OTHER -> 3

\* member a may be listed before member b of guild g
MayPrecede(c, g, a, b) ==
    \/ Rank(c.presence[g][a.id]) < Rank(c.presence[g][b.id])
    \/ /\ Rank(c.presence[g][a.id]) = Rank(c.presence[g][b.id])
       /\ StrCompare(ToLower(ListedName(a)), ToLower(ListedName(b))) <= 0

\* the member of guild g with user id u
MemberOf(c, g, u) == CHOOSE m \in c.members[g].set : m.id = u

\* the rows that are member entries, and the header rows
Entries(rows) == {i \in 1..Len(rows) : rows[i].user # 0}
Headers(rows) == {i \in 1..Len(rows) : rows[i].user = 0}

\* the header row above row i (0: none), and the name it shows
HeaderAbove(rows, i) ==
    IF \E h \in Headers(rows) : h < i
    THEN CHOOSE h \in Headers(rows) : h < i /\ \A k \in Headers(rows) : k < i => k <= h
    ELSE 0
HeaderName(rows, h) == SubSeq(rows[h].text, 3, Len(rows[h].text) - 2)

\* every member of the guild has exactly one entry and every entry is a
\* member's
EntriesAreMembers(rows, c, g) ==
    /\ \A m \in c.members[g].set : Cardinality({i \in Entries(rows) : rows[i].user = m.id}) = 1
    /\ \A i \in Entries(rows) : \E m \in c.members[g].set : m.id = rows[i].user

\* one header per bucket name, in ascending order of the names; every entry
\* below the header of its member's bucket; inside a bucket the entries in
\* status-then-name order
Grouped(rows, c, g) ==
    /\ \A h \in Headers(rows) :
         /\ rows[h].text = HeaderText(HeaderName(rows, h))
         /\ \E m \in c.members[g].set : BucketName(c, m) = HeaderName(rows, h)
    /\ \A h, k \in Headers(rows) :
         h < k => StrCompare(HeaderName(rows, h), HeaderName(rows, k)) < 0
    /\ \A i \in Entries(rows) :
         /\ HeaderAbove(rows, i) # 0
         /\ HeaderName(rows, HeaderAbove(rows, i)) = BucketName(c, MemberOf(c, g, rows[i].user))
    /\ \A i, j \in Entries(rows) :
         (i < j /\ HeaderAbove(rows, i) = HeaderAbove(rows, j))
            => MayPrecede(c, g, MemberOf(c, g, rows[i].user), MemberOf(c, g, rows[j].user))

\* every entry shows the member's name and current status
Current(rows, c, g) ==
    \A i \in Entries(rows) :
        LET m == MemberOf(c, g, rows[i].user)
        IN  rows[i].text = formatMemberText([member |-> m,
                                             presence |-> IF c.presence[g][m.id] = "none"
                                                          THEN "offline" ELSE c.presence[g][m.id],
                                             roleInfo |-> HighestColoredRole(c, m)])

\* the rows are the projection of the cache of guild g: one error row when
\* the member query fails, one explanatory row when there is no member,
\* else the grouped and sorted entries of all members
IsProjection(rows, c, g) ==
    IF ~c.members[g].ok \/ c.members[g].set = {}
    THEN Len(rows) = 1 /\ rows[1].user = 0 /\ ~ContainsGlyph(rows[1].text)
    ELSE EntriesAreMembers(rows, c, g) /\ Grouped(rows, c, g) /\ Current(rows, c, g)

\* C14: when the queued update of a member or presence event runs while
\* the panel is visible, the rows of the members list afterwards are the
\* projection of the cache of the current guild as it is then, whatever the
\* rows were before; an event for another guild queues no update and leaves
\* the rows as they are.
C14_RowsAreProjection ==
    [][/\ (MemberClosureStep /\ ml.visible /\ ml.currentGuildID # 0)
            => IsProjection(ml'.rows, cab, ml.currentGuildID)
       /\ \A g \in Guilds \cup {0} :
            (MemberEventFor(g) /\ g # ml.currentGuildID) => (queue' = queue /\ ml' = ml)]_vars

\* the members list of guild 1 has been built from the cabinet
Built == ml.visible /\ ml.currentGuildID = 1 /\ cab.members[1].ok

\* in the sequence s of member items every earlier member may precede every
\* later one
InOrder(c, g, s) ==
    \A i, j \in 1..Len(s) : i < j => MayPrecede(c, g, s[i].member, s[j].member)

\* C15: whatever the order in which the cache returns the members, the
\* sorted sequence lists a before b only if a's rank (online 0, idle 1,
\* do-not-disturb 2, offline, invisible or no presence 3) is lower, or the
\* ranks are equal and a's lowercased listed name is not greater; and the
\* sorted sequence is the same for every order of the input.
C15_SortedWhateverTheOrder ==
    Built =>
        \A o1, o2 \in Orders(cab.members[1].set) :
            /\ InOrder(cab, 1, sortedItems(cab, 1, o1))
            /\ sortedItems(cab, 1, o1) = sortedItems(cab, 1, o2)

\* C16: a built members list has one header per bucket name (the name of a
\* member's highest colored role, or "No Role"), the headers in ascending
\* order; every member has exactly one entry, below the header of its
\* bucket, and the entries of a bucket are in status-then-name order.
C16_OneBucketPerRoleName ==
    (Built /\ cab.members[1].set # {})
        => (EntriesAreMembers(ml.rows, cab, 1) /\ Grouped(ml.rows, cab, 1))

\* C17: for every listed member getRoleInfo returns the cached role of the
\* member that has a color and the greatest position, the first such role
\* of the member's role list on equal positions, and none only when the
\* member has no cached colored role.
C17_HighestColoredRole ==
    Built =>
        \A i \in Entries(ml.rows) :
            getRoleInfo(cab, MemberOf(cab, 1, ml.rows[i].user))
                = HighestColoredRole(cab, MemberOf(cab, 1, ml.rows[i].user))

\* C18: the key InitiateDM on row `index` starts initiateDM exactly when
\* the row is a member entry, and then for the member the row shows.
C18_MemberRowsInitiateDM ==
    [][\A index \in CurrentItems(ml) :
         MembersOnSelected(index)
            => mlOp'.sent = IF index < Len(ml.rows) /\ ml.rows[index + 1].user # 0
                            THEN <<InitiateDMCmd(ml.rows[index + 1].user)>>
                            ELSE <<>>]_vars

\* C19: a members list built for a guild without cached members (the
\* member list of the guild is empty, or the cabinet has none yet) holds
\* exactly one row, which is no header and no member entry.
C19_EmptySnapshotOneRow ==
    (ml.visible /\ ml.currentGuildID = 1
        /\ (~cab.members[1].ok \/ cab.members[1].set = {}))
        => (Len(ml.rows) = 1 /\ ml.rows[1].user = 0 /\ ~ContainsGlyph(ml.rows[1].text))

\* the presentation state outside the three side lists
TreeState == <<nodes, selectedChannel, ind, guildsTreeInitialized>>

\* C20: after a failed fetch of the whole set the affected list holds one
\* row, an error row, and nothing else of the presentation state has
\* changed: the members list when the panel is shown and Cabinet.Members
\* fails, the friends list when the closure for a failed relationships
\* request has run, the pinned list when the closure for a failed
\* pinned-messages request has run.
C20_FailedFetchOneErrorRow ==
    [][/\ (ToggleMembersList /\ ml'.visible /\ ~cab.members[ml.currentGuildID].ok)
            => /\ ml'.rows = <<Row(FailedText, 0)>>
               /\ UNCHANGED <<TreeState, fl, pinnedRows>>
       /\ RunFriendsFailed
            => /\ Len(fl'.rows) = 1 /\ fl'.rows[1].user = 0
               /\ UNCHANGED <<TreeState, ml, pinnedRows>>
       /\ RunPinnedFailed
            => /\ Len(pinnedRows') = 1 /\ pinnedRows'[1].user = 0
               /\ UNCHANGED <<TreeState, ml, fl>>]_vars

----------------------------------------------------------------------------
(* Member search *)

\* the words q and the letters r for which the cache holds, under the key
\* of (g, q), a count below the cap
BelowCap(m, g) ==
    {q \in SeqsUpTo(Letters, MaxQuery) :
        /\ q # <<>>
        /\ CacheExists(m.cache, SearchKey(g, q))
        /\ CacheGet(m.cache, SearchKey(g, q)) < SearchLimit}

\* C21: when the member search for (G, q) has recorded a count below the
\* cap, the search for q extended by one letter requests nothing and records
\* that same count for the longer word.
C21_ExtensionNeverFetches ==
    [][\A q \in BelowCap(mi, 1) :
          (RunTabSuggestion /\ Channel(selectedChannel).guild = 1
                            /\ Len(mi.name) = Len(q) + 1
                            /\ SubSeq(mi.name, 1, Len(q)) = q)
            => /\ mi'.sent = <<>>
               /\ CacheExists(mi'.cache, SearchKey(1, mi.name))
               /\ CacheGet(mi'.cache, SearchKey(1, mi.name)) = CacheGet(mi.cache, SearchKey(1, q))]_vars

----------------------------------------------------------------------------
(* Blocking requests *)

\* C22: no blocking request to the server (sending a message, a friend
\* request call, a member search with its wait for the chunk) is made by
\* the UI goroutine.
C22_NoRequestOnUI == net.ctx # "ui"

----------------------------------------------------------------------------
(* Message fetches that overlap *)

\* the closures of message fetches that wait in the queue, in its order
DrawQueue == SelectSeq(queue, LAMBDA x : x.kind = "drawMessages")

\* a message fetch is under way: its goroutine has not returned
FetchInFlight == Running("fetchMessages") # {} \/ Running("queueDrawMessages") # {}

\* no fetch is under way and no closure of a fetch waits
FetchesSettled == ~FetchInFlight /\ DrawQueue = <<>>

\* closures leave the queue at its head and join it at its back
EnqueueOrder ==
    [][\/ Len(queue') >= Len(queue) /\ SubSeq(queue', 1, Len(queue)) = queue
       \/ queue # <<>> /\ queue' = Tail(queue)]_vars

\* a closure of a fetch leaves the queue only by being run, and then the
\* selected channel and the message list are those of its fetch; nothing
\* else changes them
UpdatesApplied ==
    [][/\ DrawQueue' # DrawQueue /\ Len(DrawQueue') <= Len(DrawQueue)
            => /\ RunDrawMessages
               /\ selectedChannel' = DrawQueue[1].ch /\ messagesList' = DrawQueue[1].ch
       /\ <<selectedChannel, messagesList>>' # <<selectedChannel, messagesList>>
            => RunDrawMessages]_vars

\* C23 as stated: no fetch is cancelled, the closure of every fetch that
\* returned a page is run, closures run in the order in which they were
\* enqueued, and when the fetches have settled the selected channel and the
\* message list are those of the fetch that was answered last.
C23_LastAnsweredWins ==
    /\ EnqueueOrder
    /\ UpdatesApplied
    /\ []<>FetchesSettled
    /\ [](FetchesSettled /\ net.call = "Messages"
             => selectedChannel = net.ch /\ messagesList = net.ch)

\* C23, amended: no fetch is cancelled, the closure of every fetch that
\* returned a page is run, closures run in the order in which they were
\* enqueued, and when the fetches have settled the selected channel and the
\* message list are those of the fetch whose closure was enqueued, and so
\* run, last.
C23_LastEnqueuedWins ==
    /\ EnqueueOrder
    /\ UpdatesApplied
    /\ []<>FetchesSettled
    /\ [](FetchesSettled /\ lastOp.op = "drawMessages"
             => selectedChannel = lastOp.ch /\ messagesList = lastOp.ch)

\* two fetches overlapped and the closure of the one answered first ran last
C23_Witness ==
    /\ FetchesSettled
    /\ net.call = "Messages"
    /\ lastOp.op = "drawMessages" /\ selectedChannel = lastOp.ch
    /\ selectedChannel # net.ch

----------------------------------------------------------------------------
(* One message fetch *)

\* the goroutine w has got the page `messages` and goes on to enqueue its
\* closure
GotPage(w, messages) ==
    LET next == [w EXCEPT !.kind = "queueDrawMessages", !.refs = messages]
    IN  CopiesIn(next, workers') > CopiesIn(next, workers)

\* the selected channel, the message list and whether the input is disabled
Chat == <<selectedChannel, messagesList, mi.disabled>>

----------------------------------------------------------------------------
(* The first load of the private channels *)

\* C25: when the closure of the first selection of "Direct Messages" runs,
\* the node ends up with exactly one child per fetched channel, in the
\* descending order of the fetch, whatever ChannelCreate events came before
\* or during the fetch; a fetch that fails leaves the tree as it is.
C25_OneChildPerFetchedChannel ==
    [][/\ RunCreateDMNodes /\ inputs = 1 => DMChannelIDs(nodes') = Head(queue).chans
       /\ \A w \in Running("fetchPrivateChannels") :
             workers' = Finish(workers, w) /\ queue' = queue => nodes' = nodes]_vars

----------------------------------------------------------------------------
(* What member and presence events leave alone *)

\* everything of the presentation but the rows of the members list: the
\* selected channel and the chat of the messages list, the tree, the guild
\* and the visibility of the members list, the friends list and the pinned
\* rows
AllButMemberRows ==
    <<selectedChannel, messagesList, mi, nodes, ind, ml.currentGuildID, ml.visible, fl,
      pinnedRows>>

\* the names of the five handlers, as memberEvent records them
MemberHandlers ==
    {"onGuildMembersChunk", "onGuildMemberAdd", "onGuildMemberUpdate", "onGuildMemberRemove",
     "onPresenceUpdate"}

\* the step is the run of one of the five handlers on an event
IsMemberHandlerStep == events' = events + 1 /\ mlOp'.op \in MemberHandlers

\* C26: a member-chunk, member-add, member-update, member-remove or presence
\* event, and the queued update of the members list it leads to, never
\* changes the selected channel, the guild of the members list, the
\* visibility of the panel or the tree; the handler itself changes nothing
\* of the members list, and the queued update at most rebuilds its rows.
C26_MemberEventsOnlyRebuild ==
    [][/\ IsMemberHandlerStep => (AllButMemberRows' = AllButMemberRows /\ ml' = ml)
       /\ MemberClosureStep => AllButMemberRows' = AllButMemberRows]_vars

\* the queued update of a presence event has rebuilt the rows of the
\* visible members list of guild 1 while a channel is selected
C26_Witness ==
    /\ mlOp.op = "updateMemberPresence"
    /\ mlOp.reads = 1
    /\ ml.visible /\ ml.currentGuildID = 1
    /\ ml.rows # <<>>
    /\ selectedChannel # 0

----------------------------------------------------------------------------
(* Guild nodes *)

\* no two children of node p refer to the same guild or channel
DistinctChildren(ns, p) ==
    \A i, j \in 1..Len(ns[p].children) :
       (i # j /\ ns[ns[p].children[i]].ref # NilRef)
          => ns[ns[p].children[i]].ref # ns[ns[p].children[j]].ref

\* C27: in every reachable state no two sibling nodes of the tree carry the
\* same guild or channel id, whatever Ready events, completed joins (also
\* of a guild that is already in the tree) and guild selections came before.
C27_NoDuplicateSiblings == \A p \in InTree(nodes) : DistinctChildren(nodes, p)

\* the guild of node n has a node somewhere in the tree
GuildInTree(ns, g) == \E n \in InTree(ns) : ns[n].ref = GuildRef(g)

\* C28: the closure of a successful leave request leaves no node of the
\* guild in the tree, whether the node was a child of the root or of a
\* folder node; a leave request that fails leaves the tree as it is.
C28_LeftGuildIsGone ==
    [][/\ RunLeftGuild => ~GuildInTree(nodes', Head(queue).guild)
       /\ \A w \in Running("leaveGuild") :
             workers' = Finish(workers, w) /\ queue' = queue => nodes' = nodes]_vars

----------------------------------------------------------------------------
(* The friends list *)

\* the users of the relationships of type t, and the name of user u
UsersOfType(f, t) == {f.relationships[i].user : i \in {j \in 1..Len(f.relationships) :
                                                          f.relationships[j].type = t}}
NameOf(f, u) == (CHOOSE r \in Range(f.relationships) : r.user = u).name

\* user u is a friend whose name contains the filter, whatever the case of
\* the letters
MatchesFilter(f, u) ==
    /\ u \in UsersOfType(f, 1)
    /\ Contains(ToLower(NameOf(f, u)), ToLower(DecodeRunes(f.searchQuery)))

\* the users the list shows, and the rows below the header `header`
ShownUsers(f) == {f.rows[i].user : i \in Entries(f.rows)}
Bucket(f, header) ==
    {i \in Entries(f.rows) :
        HeaderAbove(f.rows, i) # 0 /\ f.rows[HeaderAbove(f.rows, i)].text = header}

\* the rows below the online and the offline header
OnlineRows(f) == UNION {Bucket(f, OnlineHeader(n)) : n \in 1..Len(f.rows)}
OfflineRows(f) == UNION {Bucket(f, OfflineHeader(n)) : n \in 1..Len(f.rows)}

\* the first presence of user u in the guilds is one that counts as online
FirstHitOnline(c, guilds, u) ==
    \E i \in 1..Len(guilds) :
       /\ c.presence[guilds[i]][u] \notin {"none", "offline", "invisible"}
       /\ \A j \in 1..(i - 1) : c.presence[guilds[j]][u] = "none"

\* the rows of S show their users in the order of the lowercased names
SortedByName(f, S) ==
    \A i, j \in S :
       i < j => StrCompare(ToLower(NameOf(f, f.rows[i].user)),
                           ToLower(NameOf(f, f.rows[j].user))) <= 0

\* what a build of the list f shows, for the presences of the cabinet c
ShowsFiltered(f, c) ==
    /\ IF f.searchQuery # <<>>
       THEN /\ ShownUsers(f) = {u \in UsersOfType(f, 1) : MatchesFilter(f, u)}
            /\ Bucket(f, IncomingHeader) = {} /\ Bucket(f, OutgoingHeader) = {}
       ELSE /\ ShownUsers(f) = UsersOfType(f, 1) \cup UsersOfType(f, 3) \cup UsersOfType(f, 4)
            /\ {f.rows[i].user : i \in Bucket(f, IncomingHeader)} = UsersOfType(f, 3)
            /\ {f.rows[i].user : i \in Bucket(f, OutgoingHeader)} = UsersOfType(f, 4)
    /\ \A u \in ShownUsers(f) \cap UsersOfType(f, 1) :
          Cardinality({i \in OnlineRows(f) \cup OfflineRows(f) : f.rows[i].user = u}) = 1
    /\ \A i \in Entries(f.rows) :
          f.rows[i].user \in UsersOfType(f, 1)
             => (i \in OnlineRows(f) <=> FirstHitOnline(c, f.guilds, f.rows[i].user))
    /\ SortedByName(f, OnlineRows(f)) /\ SortedByName(f, OfflineRows(f))
    /\ ShownUsers(f) \cap UsersOfType(f, 2) = {}

\* a step that builds the friends list: the closure of a load, or a key
\* that changes the filter (Backspace, Escape or a character)
FriendsBuildStep ==
    \/ RunFriendsRebuild
    \/ mlOp'.op = "friendsList" /\ fl'.searchQuery # fl.searchQuery

IncomingRows(f) == Bucket(f, IncomingHeader)
OutgoingRows(f) == Bucket(f, OutgoingHeader)

\* a goroutine of initiateDM was started in the step
StartsDM == \E w \in BagToSet(workers') : w.kind = "initiateDM" /\ workers' = Spawn(workers, w)

\* C30: selecting the row of a friend hides the list and initiates a DM
\* with that user; selecting the row of an incoming request sends an accept
\* for that user and initiates no DM; selecting a header or a row without a
\* user does nothing; a deny is sent only with the cursor on an incoming
\* request, a cancel only with the cursor on an outgoing request, each for
\* the user of that row.
C30_SelectionActsOnRow ==
    [][\A index \in 0..Len(fl.rows) :
          /\ FriendsEnter(index) =>
                LET row == index + 1
                    user == IF row <= Len(fl.rows) THEN fl.rows[row].user ELSE 0
                IN  /\ row \in OnlineRows(fl) \cup OfflineRows(fl)
                          => /\ ~fl'.visible
                             /\ mlOp'.sent = <<InitiateDMCmd(user)>>
                             /\ StartsDM
                    /\ row \in IncomingRows(fl)
                          => /\ mlOp'.sent = <<FriendCmd("acceptFriendRequest", user)>>
                             /\ ~StartsDM
                    /\ user = 0 => (mlOp'.sent = <<>> /\ fl' = fl /\ workers' = workers)
          /\ \A r \in FriendKeys : FriendsKeyRune(index, r) =>
                \A u \in ShownUsers(fl) \cup {0} :
                   /\ FriendCmd("denyFriendRequest", u) \in Range(mlOp'.sent)
                         => (index + 1 \in IncomingRows(fl) /\ fl.rows[index + 1].user = u)
                   /\ FriendCmd("cancelFriendRequest", u) \in Range(mlOp'.sent)
                         => (index + 1 \in OutgoingRows(fl) /\ fl.rows[index + 1].user = u)]_vars

----------------------------------------------------------------------------
(* Direct messages before the first Ready *)

\* The session from newGuildsTree on: the tree holds the root only until the
\* first Ready adds "Direct Messages".  ChannelCreate and MessageCreate
\* events of the private channels arrive before that Ready, their goroutines
\* and closures run before or after it, and the user initiates DMs and
\* closes the current one at any time.
NextEarly ==
    \/ OnReady(AccountFolders)
    \/ ~guildsTreeInitialized /\ \E c \in DMs : OnChannelCreate(c)
    \/ ~guildsTreeInitialized /\ \E c \in DMs : OnMessageCreate(c)
    \/ \E c \in DMs : InitiateDM(c)
    \/ CloseCurrentDM
    \/ UpdateDMStyleAndMove
    \/ FetchDM
    \/ RunChannelCreate
    \/ RunStyleAndMove
    \/ RunOpenDM

SpecEarly == Init /\ [][NextEarly]_vars

\* the closures of ChannelCreate, DM initiation and DM promotion, and
\* close-current-DM
DMGroupStep ==
    \/ RunChannelCreate
    \/ RunOpenDM
    \/ RunStyleAndMove
    \/ CloseCurrentDM

\* C31: while the tree has no "Direct Messages" node under its root, the
\* closures of ChannelCreate and of DM initiation, the promotion of a DM and
\* close-current-DM leave the tree, the selected channel, the message list
\* and the message input as they are, and the promotion goroutine queues no
\* closure.
C31_AbortWithoutDMNode ==
    [][FindDMGroup(nodes) = 0 =>
          /\ DMGroupStep => UNCHANGED <<nodes, selectedChannel, messagesList, mi>>
          /\ UpdateDMStyleAndMove
                => UNCHANGED <<nodes, selectedChannel, messagesList, mi, queue>>]_vars

\* the closure of initiateDM has run and the tree still has no "Direct
\* Messages" node
C31_Witness ==
    /\ lastOp.op = "openDM"
    /\ FindDMGroup(nodes) = 0
    /\ ~guildsTreeInitialized
    /\ selectedChannel = 0

----------------------------------------------------------------------------
(* Reads of the selected channel, cmd/state.go and cmd/message_input.go *)

\* onMessageDelete up to the nil test of app.chatView.selectedChannel, in
\* the goroutine of the event dispatcher; the task keeps the event's channel
\* and, as node, the channel the test saw
OnMessageDelete(c) ==
    /\ UNCHANGED sideVars
    /\ events < MaxEvents /\ MayArrive
    /\ events' = events + 1
    /\ workers' = IF selectedChannel = 0 THEN workers
                  ELSE Spawn(workers, [Task EXCEPT !.kind = "messageDelete", !.ch = c,
                                                   !.node = selectedChannel])
    /\ UNCHANGED <<nodes, queue, selectedChannel, ind, guildsTreeInitialized, readyFolders,
                   lastOp, inputs>>

\* the rest of onMessageDelete: selectedChannel.ID is read, unsynchronised
\* with the UI goroutine that assigns the field, so the read sees the field
\* as it is now or as the nil test saw it; a nil pointer is dereferenced,
\* which lastOp records.  For the selected channel Cabinet.Messages fails
\* or the closure that redraws the messages is queued.
ReadSelectedID ==
    \E w \in Running("messageDelete") : \E selected \in {selectedChannel, w.node} :
        /\ UNCHANGED sideVars
        /\ workers' = Finish(workers, w)
        /\ lastOp' = IF selected = 0 THEN Op("nilDereference", w.ch, 0, 0) ELSE lastOp
        /\ \/ UNCHANGED queue
           \/ /\ selected = w.ch
              /\ queue' = Append(queue, [Task EXCEPT !.kind = "redrawMessages", !.ch = w.ch])
        /\ UNCHANGED <<nodes, selectedChannel, ind, guildsTreeInitialized, readyFolders,
                       events, inputs>>

\* the closure of onMessageDelete: messagesList.reset() and drawMessages
\* with the messages of the event's channel
RunRedrawMessages ==
    /\ UNCHANGED <<sideRest, mi>>
    /\ HeadIs("redrawMessages")
    /\ messagesList' = Head(queue).ch
    /\ queue' = Tail(queue)
    /\ UNCHANGED <<nodes, workers, selectedChannel, ind, guildsTreeInitialized, readyFolders,
                   lastOp, events, inputs>>

\* The user types in the message input of a private channel and closes the
\* channel while MessageDelete events arrive.
NextClose ==
    \/ TypeLetter
    \/ QueueTabSuggestion
    \/ RunTabSuggestion
    \/ CloseCurrentDM
    \/ \E c \in DMs : OnMessageDelete(c)
    \/ ReadSelectedID
    \/ RunRedrawMessages

SpecClose == InitMessage /\ [][NextClose]_vars

\* C32: whenever the queued closure of a tab suggestion runs, and whenever
\* onMessageDelete reads the id of the selected channel after its nil test,
\* a channel is selected.
C32_SelectedWhenRead ==
    [][(RunTabSuggestion \/ ReadSelectedID) => selectedChannel # 0]_vars

----------------------------------------------------------------------------
(* The key of the members panel *)

\* The user shows and hides the members panel and selects guilds while
\* member chunks arrive and members leave.
NextToggle ==
    \/ ToggleMembersList
    \/ \E n \in GuildRows(nodes) : OnSelected(n)
    \/ OnGuildMembersChunk(1, Users)
    \/ OnGuildMemberRemove(1, 1)
    \/ RunRebuildList

SpecToggle == InitMembers /\ [][NextToggle]_vars

\* the cache holds no member of guild g
NoCachedMembers(c, g) == ~c.members[g].ok \/ c.members[g].set = {}

\* C33: when the members panel is toggled visible and a guild id is
\* recorded, the list is built from the cached members of that guild, and a
\* member request for it is sent exactly when the cache holds no member of
\* it; with no guild id recorded the list stays empty and nothing is sent;
\* toggling the panel hidden leaves the rows alone; the recorded guild id
\* is the same after any toggle.
C33_ToggleRebuildsRecorded ==
    [][ToggleMembersList =>
          LET g == ml.currentGuildID
          IN  /\ ml'.currentGuildID = g
              /\ ml'.visible = ~ml.visible
              /\ (~ml.visible /\ g # 0) =>
                    /\ \E res \in CabinetMembers(cab, g) :
                          ml' = rebuildList_Hidden([ml EXCEPT !.visible = TRUE], cab, res)
                    /\ mlOp'.sent = IF NoCachedMembers(cab, g)
                                    THEN <<RequestGuildMembers(g)>> ELSE <<>>
              /\ (~ml.visible /\ g = 0) => (ml'.rows = <<>> /\ mlOp'.sent = <<>>)
              /\ ml.visible => (ml'.rows = ml.rows /\ mlOp'.sent = <<>>)]_vars

\* the panel was toggled visible with guild 1 recorded and members cached:
\* the rows are built and no request was sent
C33_Witness ==
    /\ mlOp.op = "toggleMembersList"
    /\ ml.visible
    /\ ml.currentGuildID = 1
    /\ Len(ml.rows) > 1
    /\ mlOp.sent = <<>>

----------------------------------------------------------------------------
(* The gates of searchMember *)

\* the word without its last character
Shorter(name) == SubSeq(name, 1, Len(name) - 1)

\* the search for the word one character shorter has recorded a count
\* below the cap
ShorterBelowCap(m, g, name) ==
    /\ CacheExists(m.cache, SearchKey(g, Shorter(name)))
    /\ CacheGet(m.cache, SearchKey(g, Shorter(name))) < SearchLimit

\* the closure of a tab suggestion runs and calls searchMember
SearchMemberStep ==
    /\ RunTabSuggestion
    /\ selectedChannel # 0 /\ Channel(selectedChannel).guild # 0
    /\ mi.name # <<>>

\* a member search is requested only for a word that is not recorded, whose
\* shortening by one character is not recorded with a count below the cap,
\* and not while the last request is recent
FetchOnlyPastGates ==
    [][(SearchMemberStep /\ mi'.sent # <<>>) =>
          LET g == Channel(selectedChannel).guild
          IN  /\ ~CacheExists(mi.cache, SearchKey(g, mi.name))
              /\ ~ShorterBelowCap(mi, g, mi.name)
              /\ mi.lastSearch # "recent"
              /\ mi'.lastSearch = "recent"]_vars

\* a search that the interval gate skips records nothing
SkippedNotRecorded ==
    [][(SearchMemberStep /\ mi'.sent = <<>> /\ mi.lastSearch = "recent"
          /\ ~ShorterBelowCap(mi, Channel(selectedChannel).guild, mi.name))
        => mi'.cache = mi.cache]_vars

\* C34: searchMember requests a member search for (guild, word) only if the
\* word is not recorded, the word one character shorter is not recorded with
\* a count below the cap, and the last request is not recent; and a word
\* that the interval gate skips is not recorded.
C34_GatedFetch == FetchOnlyPastGates /\ SkippedNotRecorded

----------------------------------------------------------------------------
(* Closing a DM from the tree *)

\* the loaded tree with a node for each private channel
TreeWithDMs ==
    createChannelNodes(LoadedTree, 2, [c \in 1..NumDMs |-> Channel(c)],
                       [c \in Channels |-> "read"])

InitCloseDM ==
    /\ nodes = TreeWithDMs
    /\ queue = <<>>
    /\ workers = EmptyBag
    /\ selectedChannel \in DMs \cup {0, TextChan}
    /\ ind = [c \in Channels |-> "read"]
    /\ guildsTreeInitialized = TRUE
    /\ readyFolders = AccountFolders
    /\ lastOp = Op("init", 0, 0, 0)
    /\ events = 0
    /\ inputs = 0
    /\ SideInit

\* The user closes any node of the tree and initiates DMs again while the
\* deletions on the server succeed or fail.
NextCloseDM ==
    \/ \E n \in Shown(nodes, Root) : CloseDMKey(n)
    \/ DeleteChannel
    \/ \E c \in DMs : InitiateDM(c)
    \/ FetchDM
    \/ RunOpenDM

SpecCloseDM == InitCloseDM /\ [][NextCloseDM]_vars

\* node n references a private channel
IsDMNode(ns, n) ==
    ns[n].ref.t = "chan" /\ ns[n].ref.id # 0 /\ IsDMType(Channel(ns[n].ref.id).type)

\* the tree ns1 is the tree ns without node n: n is the child of no node,
\* and every node keeps its other children in their order
WithoutNode(ns, ns1, n) ==
    /\ Len(ns1) = Len(ns)
    /\ \A p \in 1..Len(ns) :
          ns1[p] = [ns[p] EXCEPT !.children = SelectSeq(ns[p].children, LAMBDA k : k # n)]

\* C35: closeDM on node n removes n from the tree exactly when n references
\* a private channel that the cabinet holds; then, if that channel is the
\* selected one, no channel is selected afterwards, the message list is
\* reset and the input disabled, and else the selection is left alone; for
\* any other node the tree, the selection, the message list and the input
\* are unchanged; the goroutine that deletes the channel on the server
\* changes none of them, whether it fails or not.
C35_CloseDMRemovesOnlyDMs ==
    [][/\ \A n \in 1..Len(nodes) : \A known \in BOOLEAN :
            closeDM(n, known, TRUE) =>
               IF IsDMNode(nodes, n) /\ known
               THEN /\ WithoutNode(nodes, nodes', n)
                    /\ n \notin InTree(nodes')
                    /\ IF selectedChannel = nodes[n].ref.id
                       THEN selectedChannel' = 0 /\ messagesList' = 0 /\ mi'.disabled
                       ELSE UNCHANGED <<selectedChannel, messagesList, mi>>
               ELSE UNCHANGED <<nodes, selectedChannel, messagesList, mi>>
       /\ DeleteChannel => UNCHANGED <<nodes, selectedChannel, messagesList, mi>>]_vars

\* the selected private channel was closed from the tree and its deletion
\* on the server has failed: its node is gone and nothing is selected
C35_Witness ==
    /\ lastOp.op = "deleteFailed"
    /\ Lookup(nodes, lastOp.ch) = 0
    /\ selectedChannel = 0
    /\ messagesList = 0
    /\ mi.disabled

----------------------------------------------------------------------------
(* The selection after a DM was closed *)

\* C36: a private channel that has been closed, so that no node of the
\* tree references it, is not the selected channel: no step, and in
\* particular no closure of a message fetch started before the close, makes
\* a private channel without a node the selected channel.
C36_ClosedDMNotSelected ==
    selectedChannel \in DMs => Lookup(nodes, selectedChannel) # 0

----------------------------------------------------------------------------
(* The forced unread style *)

\* The user opens "Direct Messages" after the Ready; MessageCreate events of
\* the private channels arrive once the goroutine of the fetch has computed
\* the styles and before it has queued the closure that applies them.
NextBatch ==
    \/ OnReady(AccountFolders)
    \/ \E n \in DMRows(nodes) : nodes[n].ref.t = "nil" /\ OnSelected(n)
    \/ FetchPrivateChannels
    \/ RunCreateDMNodes
    \/ ComputeDMStyles
    \/ Running("queueDMStyles") # {} /\ \E c \in DMs : OnMessageCreate(c)
    \/ UpdateDMStyleAndMove
    \/ RunStyleAndMove
    \/ QueueDMStyles
    \/ RunApplyDMStyles

SpecBatch == Init /\ [][NextBatch]_vars

\* C37: a node that carries the forced unread style of a MessageCreate
\* changes its style only when the closure of a ReadStateUpdate for its
\* channel runs or when the updateChannelStyle that the user's opening of
\* the channel starts sets it; in particular the second closure of the
\* "Direct Messages" fetch does not set a style on it.
C37_ForcedStaysUnread ==
    [][\A n \in 1..Len(nodes) :
          (nodes[n].forced /\ nodes'[n].style # nodes[n].style) =>
             \/ RunReadUpdate /\ Head(queue).ch = nodes[n].ref.id
             \/ /\ UpdateChannelStyle
                /\ \E w \in Running("updateChannelStyle") : w.ch = nodes[n].ref.id]_vars

----------------------------------------------------------------------------
(* The guild of the members list *)

\* The session after the user has opened guild 1 and joined guild 2, which
\* the cabinet does not hold yet: the loaded tree with a node for guild 2,
\* guild 1 recorded in the members list.
InitTwoGuilds ==
    /\ nodes = createGuildNode(LoadedTree, Root, 2, [c \in Channels |-> "read"])
    /\ ml = [NewMembersList EXCEPT !.currentGuildID = 1]
    /\ cab \in {EmptyCabinet, MemberSetAll(EmptyCabinet, 1, Users)}
    /\ queue = <<>>
    /\ workers = EmptyBag
    /\ selectedChannel = 0
    /\ ind = [c \in Channels |-> "read"]
    /\ guildsTreeInitialized = TRUE
    /\ readyFolders = AccountFolders
    /\ lastOp = Op("init", 0, 0, 0)
    /\ events = 0
    /\ inputs = 0
    /\ mlOp = MlOp("init", 0, <<>>, 0)
    /\ fl = NewFriendsList
    /\ pinnedRows = <<>>
    /\ mainFlex = buildLayout(ml)
    /\ http = NewBuildNumber
    /\ mi = NewMessageInput
    /\ messagesList = 0
    /\ net = NoRequest

SpecTwoGuilds == InitTwoGuilds /\ [][NextHidden]_vars

\* the guild a selection of node n is about: the guild of a guild node, the
\* guild of a childless node of a guild channel, 0 for any other node
SelectedGuild(ns, n) ==
    IF ns[n].ref.t = "guild" THEN ns[n].ref.id
    ELSE IF ns[n].ref.t = "chan" /\ ns[n].ref.id # 0 /\ ns[n].children = <<>>
            /\ ~IsDMType(Channel(ns[n].ref.id).type)
    THEN Channel(ns[n].ref.id).guild
    ELSE 0

\* C38: after the user has selected the node of guild G, with or without
\* loaded children, or the childless node of a channel of guild G, the
\* members list's current guild id is G, whether the panel is visible or
\* not.
C38_SelectionRecordsGuild ==
    [][\A n \in 1..Len(nodes) :
          (OnSelected(n) /\ SelectedGuild(nodes, n) # 0)
             => ml'.currentGuildID = SelectedGuild(nodes, n)]_vars


----------------------------------------------------------------------------
(* The guilds tree in the main layout, cmd/chat_view.go *)

\* the guilds tree is one of the items of the layout
TreeShown(items) == \E i \in 1..Len(items) : items[i] = GuildsTreeItem

\* chatView.toggleGuildsTree on the layout: "visible if the number of items
\* is two or three"
toggleGuildsTree(items, m) ==
    IF Len(items) >= 2 THEN RemoveItem(items, GuildsTreeItem) ELSE buildLayout(m)

\* the key of toggleGuildsTree
ToggleGuildsTree ==
    /\ inputs < MaxInputs /\ MayArrive
    /\ inputs' = inputs + 1
    /\ mainFlex' = toggleGuildsTree(mainFlex, ml)
    /\ lastOp' = Op("toggleGuildsTree", 0, 0, 0)
    /\ UNCHANGED <<http, mi, messagesList, net, ml, cab, mlOp, fl, pinnedRows, nodes, queue, workers,
                   selectedChannel, ind, guildsTreeInitialized, readyFolders, events>>

\* chatView.focusGuildsTree; idx of the record is 1 when it returns true
FocusGuildsTree ==
    /\ inputs < MaxInputs /\ MayArrive
    /\ inputs' = inputs + 1
    /\ lastOp' = Op("focusGuildsTree", 0, 0, IF Len(mainFlex) >= 2 THEN 1 ELSE 0)
    /\ UNCHANGED <<mi, messagesList, net, ml, cab, mlOp, fl, pinnedRows, mainFlex, http, nodes, queue,
                   workers, selectedChannel, ind, guildsTreeInitialized, readyFolders, events>>

\* the members panel is hidden or was shown by its key before a guild was
\* chosen, and the layout is the one that goes with it
InitLayout ==
    /\ nodes = ReadyTree
    /\ ml \in {[NewMembersList EXCEPT !.visible = v] : v \in BOOLEAN}
    /\ cab \in {EmptyCabinet, MemberSetAll(EmptyCabinet, 1, Users)}
    /\ queue = <<>>
    /\ workers = EmptyBag
    /\ selectedChannel = 0
    /\ ind = [c \in Channels |-> "read"]
    /\ guildsTreeInitialized = TRUE
    /\ readyFolders = AccountFolders
    /\ lastOp = Op("init", 0, 0, 0)
    /\ events = 0
    /\ inputs = 0
    /\ mlOp = MlOp("init", 0, <<>>, 0)
    /\ fl = NewFriendsList
    /\ pinnedRows = <<>>
    /\ mainFlex = buildLayout(ml)
    /\ http = NewBuildNumber
    /\ mi = [NewMessageInput EXCEPT !.disabled = TRUE]
    /\ messagesList = 0
    /\ net = NoRequest

NextLayout ==
    \/ ToggleGuildsTree
    \/ FocusGuildsTree
    \/ ToggleMembersList
    \/ \E n \in GuildRows(nodes) : OnSelected(n)
    \/ OnGuildMembersChunk(1, Users)
    \/ RunRebuildList

SpecLayout == InitLayout /\ [][NextLayout]_vars

\* C39: toggleGuildsTree flips the presence of the guilds tree in the layout
\* whatever the layout is, with the members list visible or not, and
\* focusGuildsTree returns true only when the guilds tree is one of the items
C39_ToggleFlipsTree ==
    [][/\ ToggleGuildsTree => (TreeShown(mainFlex') <=> ~TreeShown(mainFlex))
       /\ FocusGuildsTree /\ lastOp'.idx = 1 => TreeShown(mainFlex)]_vars


----------------------------------------------------------------------------
(* The cache of the build number *)

NextBuildNumber ==
    \/ \E p \in Callers : CheckCache(p)
    \/ \E p \in Callers : RUnlock(p)
    \/ \E p \in Callers : ReturnCached(p)
    \/ \E p \in Callers : FetchFails(p)
    \/ \E p \in Callers : FetchSucceeds(p)
    \/ \E p \in Callers : UpdateCache(p)
    \/ Tick

SpecBuildNumber == Init /\ [][NextBuildNumber]_vars

\* a call that finds a number stored less than an hour ago goes on to return
\* from the cache, and only a call that found none fetches
FreshMeansNoFetch ==
    [][\A p \in Callers :
          /\ CheckCache(p) /\ CacheFresh(http) => http'.pc[p] = "hit"
          /\ (FetchFails(p) \/ FetchSucceeds(p)) => http.pc[p] = "fetch"
          /\ http.pc[p] = "hit" => http'.pc[p] \in {"hit", "return"}
          /\ http.pc[p] = "return" => http'.pc[p] \in {"return", "idle"}]_vars

\* a failed fetch returns the fallback and writes neither the number nor its
\* fetch time
FailureKeepsCache ==
    [][\A p \in Callers :
          FetchFails(p) =>
             /\ http'.ret[p].how = "fallback" /\ http'.ret[p].n = ClientBuildNumber
             /\ http'.cachedBuildNumber = http.cachedBuildNumber
             /\ http'.lastFetchTime = http.lastFetchTime]_vars

\* the number and its fetch time are written in one step, and the number
\* that a call returns from the cache is the one it read with the fetch time
PairedReadsAndWrites ==
    [][/\ http'.cachedBuildNumber # http.cachedBuildNumber
             => \E p \in Callers : UpdateCache(p) /\ http'.lastFetchTime = http.now
       /\ \A p \in Callers :
             ReturnCached(p) => http'.ret[p].n = http.seen[p]]_vars

\* C40: GetLatestBuildNumber returns the cached number without a fetch when
\* a fetch was stored less than an hour ago, a failed fetch returns the
\* fallback and leaves the cached number and its fetch time as they were,
\* and with concurrent callers the number and its fetch time are read and
\* written together
C40_BuildNumberCache == FreshMeansNoFetch /\ FailureKeepsCache /\ PairedReadsAndWrites

====
